---- MODULE Spec2Model ----
(***************************************************************************)
(* Model of the RoboDK API client (C++/Example/robodk_api.cpp): the        *)
(* message channel primitives, the status decoder, the command dispatcher  *)
(* pattern of the public operations, and the move orchestrator.            *)
(*                                                                         *)
(* The client is single threaded.  A public operation is a straight line   *)
(* of primitive calls; the model runs it one primitive at a time, so that  *)
(* the remote application can deliver bytes between two of them.           *)
(*                                                                         *)
(* Received data is a sequence of bytes (0..255).  Sent data is a sequence *)
(* of typed fields ("line", "int" = 4 bytes, "u64" = 8 bytes, "dbl" = 8    *)
(* bytes), in the order the code writes them.  A double is stood for by an *)
(* integer.  A C++ pointer is a set: {} is NULL, {x} points to x.          *)
(***************************************************************************)
EXTENDS Integers, Sequences, FiniteSets, TLC

VARIABLES
    _COM,       \* the socket: "NULL", or "Connected" (open, in ConnectedState)
    _TIMEOUT,   \* the shared per-call timeout, in ms
    rx,         \* bytes buffered on the socket, not yet read by the client
    wire,       \* fields written to the socket since the operation began
    pc,         \* "idle", "running", "returned", "thrown"
    op,         \* the public operation in progress, or the last one
    prog,       \* the primitive calls the operation still has to make
    trace,      \* the primitive calls the operation has made
    last,       \* what the latest _check_status did
    failed,     \* whether a receive or a status decode of the operation failed
    result      \* what the operation hands to its caller

vars == <<_COM, _TIMEOUT, rx, wire, pc, op, prog, trace, last, failed, result>>

----------------------------------------------------------------------------
\* Bounds of the model

\* most bytes the remote may have buffered ahead of the client's next read
MaxRx == 4

\* most deliveries in which the bytes of one matrix reach the socket
MaxDeliveries == 3

\* most columns appended to a matrix one at a time
MaxColumns == 6

----------------------------------------------------------------------------
\* Program constants

ROBODK_API_TIMEOUT == 1000
ROBODK_API_START_STRING == "CMD_START"
ROBODK_API_READY_STRING == "READY"
ROBODK_API_LF == 10

\* Item type tags (enum of robodk_api.h)
ITEM_TYPE_ROBOT == 2
ITEM_TYPE_PROGRAM == 8

\* timeout_sec default of Item::WaitMove (robodk_api.h)
WaitMoveDefaultSec == 300

NULL == {}
Ptr(x) == {x}
Deref(p) == CHOOSE x \in p : TRUE

----------------------------------------------------------------------------
\* Byte sequences

Take(s, n) == SubSeq(s, 1, IF n < Len(s) THEN n ELSE Len(s))
Drop(s, n) == SubSeq(s, n + 1, Len(s))

\* QDataStream >> qint32: four bytes, big endian, two's complement
Int32(b) ==
    (IF b[1] >= 128 THEN b[1] - 256 ELSE b[1]) * 16777216 + b[2] * 65536 + b[3] * 256 + b[4]

\* QDataStream << qint32 (\div rounds down, % is never negative)
Bytes32(v) ==
    << (v \div 16777216) % 256, (v \div 65536) % 256, (v \div 256) % 256, v % 256 >>

\* QDataStream >> quint64: eight bytes, big endian.  The identifiers above
\* 2^31 - 1 are all stood for by 2^31 - 1.
UInt64(b) ==
    IF (\A k \in 1..4 : b[k] = 0) /\ b[5] < 128
    THEN b[5] * 16777216 + b[6] * 65536 + b[7] * 256 + b[8]
    ELSE 2147483647

\* QIODevice::canReadLine: a newline is buffered
canReadLine(s) == \E k \in 1..Len(s) : s[k] = ROBODK_API_LF

\* length of the first line of s, its newline included
LineLen(s) == CHOOSE k \in 1..Len(s) : s[k] = ROBODK_API_LF /\ \A j \in 1..(k - 1) : s[j] # ROBODK_API_LF

isspace(c) == c \in {9, 10, 11, 12, 13, 32}

\* QByteArray::trimmed: white space removed from both ends
trimmed(s) ==
    LET keep == {k \in 1..Len(s) : ~isspace(s[k])}
    IN  IF keep = {} THEN << >>
        ELSE LET lo == CHOOSE k \in keep : \A j \in keep : k <= j
                 hi == CHOOSE k \in keep : \A j \in keep : k >= j
             IN  SubSeq(s, lo, hi)

----------------------------------------------------------------------------
\* Fields written to the socket

TLine(s) == [s |-> s, n |-> 0, t |-> "line"]
TInt(n) == [s |-> "", n |-> n, t |-> "int"]
TU64(n) == [s |-> "", n |-> n, t |-> "u64"]
TDbl(n) == [s |-> "", n |-> n, t |-> "dbl"]

\* QIODevice::isOpen of the socket the client holds
isOpen(com) == com = "Connected"

----------------------------------------------------------------------------
\* Message channel: receive primitives.
\* buf is the socket's buffer; d is what arrives during waitForReadyRead
\* (<< >>: nothing arrives before _TIMEOUT).  Each yields the value handed
\* back, the buffer left (rest) and the bytes taken from it (took).

\* int RoboDK::_recv_Int()
_recv_Int(com, buf, d) ==
    IF com = "NULL"
    THEN [value |-> 0, rest |-> buf, took |-> << >>, read |-> FALSE]     \* return false;
    ELSE LET b == IF Len(buf) < 4 THEN buf \o d ELSE buf
         IN  IF Len(b) < 4
             THEN [value |-> -1, rest |-> b, took |-> << >>, read |-> FALSE]
             ELSE [value |-> Int32(Take(b, 4)), rest |-> Drop(b, 4),
                   took |-> Take(b, 4), read |-> TRUE]

\* bool RoboDK::_waitline(): the buffer once the wait is over, and whether
\* it holds a line
_waitline(com, buf, d) ==
    IF com = "NULL" THEN [buf |-> buf, ok |-> FALSE]
    ELSE LET b == IF canReadLine(buf) THEN buf ELSE buf \o d
         IN  [buf |-> b, ok |-> canReadLine(b)]

\* QString RoboDK::_recv_Line()
_recv_Line(com, buf, d) ==
    LET w == _waitline(com, buf, d)
    IN  IF ~w.ok
        THEN IF com # "NULL"
             THEN [rest |-> << >>, took |-> w.buf, ok |-> FALSE, string |-> << >>]   \* readAll()
             ELSE [rest |-> w.buf, took |-> << >>, ok |-> FALSE, string |-> << >>]
        ELSE LET n == LineLen(w.buf)
             IN  [rest |-> Drop(w.buf, n), took |-> Take(w.buf, n), ok |-> TRUE,
                  string |-> trimmed(Take(w.buf, n))]

\* Item RoboDK::_recv_Item(): the identifier, then the type tag, are read
\* off the stream once eight bytes are there
_recv_Item(com, buf, d) ==
    IF com = "NULL"
    THEN [rest |-> buf, took |-> << >>, read |-> FALSE, PTR |-> 0, TYPE |-> -1]
    ELSE LET b == IF Len(buf) < 8 THEN buf \o d ELSE buf
         IN  IF Len(b) < 8
             THEN [rest |-> b, took |-> << >>, read |-> FALSE, PTR |-> 0, TYPE |-> -1]
             ELSE LET r == Drop(b, 8)
                  IN  [rest |-> Drop(r, 4), took |-> Take(b, 12), read |-> TRUE,
                       PTR |-> UInt64(Take(b, 8)),
                       TYPE |-> IF Len(r) >= 4 THEN Int32(Take(r, 4)) ELSE 0]

----------------------------------------------------------------------------
\* Message channel: send primitives.  Each yields the fields it writes
\* (none when the client holds no open socket: the call returns false).

\* bool RoboDK::_send_Line(const QString&)
_send_Line(com, string) ==
    IF ~isOpen(com) THEN << >> ELSE << TLine(string) >>

\* bool RoboDK::_send_Int(qint32)
_send_Int(com, value) ==
    IF ~isOpen(com) THEN << >> ELSE << TInt(value) >>

\* _send_Item writing the type tag behind the identifier, and nothing for NULL
_send_Item_WithType(com, item) ==
    IF ~isOpen(com) \/ item = NULL THEN << >>
    ELSE << TU64(Deref(item).PTR), TInt(Deref(item).TYPE) >>

\* bool RoboDK::_send_Item(const Item*)
_send_Item(com, item) ==
    IF ~isOpen(com) THEN << >>
    ELSE LET ptr == IF item # NULL THEN Deref(item).PTR ELSE 0
         IN  << TU64(ptr) >>

\* bool RoboDK::_send_Array(const double*, int)
_send_Array(com, values, nvalues) ==
    IF ~isOpen(com) THEN << >>
    ELSE _send_Int(com, nvalues) \o [i \in 1..nvalues |-> TDbl(values[i])]

\* bool RoboDK::_send_Array(const tJoints*)
_send_Array_tJoints(com, jnts) ==
    IF jnts = NULL THEN _send_Int(com, 0)
    ELSE _send_Array(com, Deref(jnts).Values, Deref(jnts).nDOFs)

\* bool RoboDK::_send_Array(const Mat*): m44[c*4+r] = mat->Get(r,c)
_send_Array_Mat(com, mat) ==
    IF mat = NULL THEN _send_Int(com, 0)
    ELSE LET m44 == [k \in 1..16 |-> Deref(mat)[(k - 1) % 4][(k - 1) \div 4]]
         IN  _send_Array(com, m44, 16)

\* _send_Pose with the row loop outer and the column loop inner
_send_Pose_RowMajor(com, pose) ==
    IF ~isOpen(com) THEN << >>
    ELSE [k \in 1..16 |-> TDbl(pose[(k - 1) \div 4][(k - 1) % 4])]

\* bool RoboDK::_send_Pose(const Mat&): column loop outer, row loop inner
_send_Pose(com, pose) ==
    IF ~isOpen(com) THEN << >>
    ELSE [k \in 1..16 |-> TDbl(pose[(k - 1) % 4][(k - 1) \div 4])]

----------------------------------------------------------------------------
\* Status decoder

\* What _check_status did: ret is the bool returned (an int converted:
\* nonzero is true), status the word decoded, read whether a word was read,
\* rest the buffer left, took the bytes taken, line whether a message line
\* was asked for, lineok whether one came, strproblems the message.
\* said is what qDebug prints.
Decoded(r) ==
    [rest |-> r.rest, took |-> r.took, read |-> r.read,
     ret |-> r.value # 0, status |-> r.value,
     line |-> FALSE, lineok |-> FALSE, strproblems |-> << >>, said |-> ""]

\* the same once strproblems = _recv_Line() has run
DecodedLine(r, l) ==
    [Decoded(r) EXCEPT !.rest = l.rest, !.took = r.took \o l.took,
                       !.line = TRUE, !.lineok = l.ok, !.strproblems = l.string]

\* _check_status reading a message line behind every status from 1 to 9
_check_status_LineAlways(com, buf, d1, d2) ==
    LET r == _recv_Int(com, buf, d1)
        status == r.value
        l == _recv_Line(com, r.rest, d2)
    IN  IF status > 0 /\ status < 10
        THEN IF status = 2
             THEN [DecodedLine(r, l) EXCEPT !.ret = FALSE, !.said = "RoboDK API WARNING: "]
             ELSE [DecodedLine(r, l) EXCEPT !.said = "RoboDK API ERROR: "]
        ELSE IF status = 0 THEN Decoded(r)
        ELSE [Decoded(r) EXCEPT !.said = "Communication problems with the RoboDK API"]

\* _check_status returning the status for a warning, as it does for an error
_check_status_WarningFails(com, buf, d1, d2) ==
    LET r == _recv_Int(com, buf, d1)
        status == r.value
        l == _recv_Line(com, r.rest, d2)
    IN  IF status > 0 /\ status < 10
        THEN IF status = 1 THEN Decoded(r)
             ELSE IF status = 2
                  THEN [DecodedLine(r, l) EXCEPT !.said = "RoboDK API WARNING: "]
             ELSE IF status = 3
                  THEN [DecodedLine(r, l) EXCEPT !.said = "RoboDK API ERROR: "]
             ELSE IF status = 9
                  THEN [Decoded(r) EXCEPT !.said = "Invalid RoboDK License"]
             ELSE Decoded(r)
        ELSE IF status = 0 THEN Decoded(r)
        ELSE [Decoded(r) EXCEPT !.said = "Communication problems with the RoboDK API"]

\* bool RoboDK::_check_status().  d1 is what arrives while the status word
\* is waited for, d2 while the message line is.
_check_status(com, buf, d1, d2) ==
    LET r == _recv_Int(com, buf, d1)
        status == r.value
        l == _recv_Line(com, r.rest, d2)
    IN  IF status > 0 /\ status < 10
        THEN IF status = 1 THEN Decoded(r)
             ELSE IF status = 2
                  THEN [DecodedLine(r, l) EXCEPT !.ret = FALSE, !.said = "RoboDK API WARNING: "]   \* return 0;
             ELSE IF status = 3
                  THEN [DecodedLine(r, l) EXCEPT !.said = "RoboDK API ERROR: "]
             ELSE IF status = 9
                  THEN [Decoded(r) EXCEPT !.said = "Invalid RoboDK License"]
             ELSE Decoded(r)
        ELSE IF status = 0 THEN Decoded(r)
        ELSE [Decoded(r) EXCEPT !.said = "Communication problems with the RoboDK API"]

\* last, before any status was decoded
NoStatus ==
    [rest |-> << >>, took |-> << >>, read |-> FALSE, ret |-> FALSE, status |-> 0,
     line |-> FALSE, lineok |-> FALSE, strproblems |-> << >>, said |-> "none"]

----------------------------------------------------------------------------
\* Connection manager

\* bool RoboDK::_connected()
_connected(com) == com # "NULL" /\ com = "Connected"

\* What one connection attempt meets: the TCP connection is not made
\* before the timeout, no reply comes, a reply that does not start with
\* READY comes, or READY comes.
ConnectOutcomes == {"refused", "noreply", "badreply", "ready"}

\* bool RoboDK::_connect(): the socket it leaves, what it wrote, and the
\* bool it returns.  The old socket is dropped first; readAll() empties the
\* new socket's buffer.
_connect(o) ==
    LET handshake == << TLine(ROBODK_API_START_STRING), TLine("1 0") >>
    IN  IF o = "refused"
        THEN [ok |-> FALSE, COM |-> "NULL", wrote |-> << >>]
        ELSE IF o = "ready"
             THEN [ok |-> TRUE, COM |-> "Connected", wrote |-> handshake]
             ELSE [ok |-> FALSE, COM |-> "NULL", wrote |-> handshake]

\* Lines the launched process may print on its standard output
ProcessLines == {"RoboDK is Running", "Loading"}

\* QChar::toLower, for the letters of "running" (no other letter folds to
\* one of them); c is a string of one character
toLower(c) ==
    IF c = "R" THEN "r" ELSE IF c = "U" THEN "u" ELSE IF c = "N" THEN "n"
    ELSE IF c = "I" THEN "i" ELSE IF c = "G" THEN "g" ELSE c

\* contains("Running") with the case of the letters minded
containsRunning_CaseSensitive(line) ==
    \E k \in 1..(Len(line) - 6) : SubSeq(line, k, k + 6) = "Running"

\* line.contains("Running", Qt::CaseInsensitive)
containsRunning(line) ==
    \E k \in 1..(Len(line) - 6) :
        \A j \in 1..7 : toLower(SubSeq(line, k + j - 1, k + j - 1)) = SubSeq("running", j, j)

\* the first line of out that holds the marker, or 0
FirstRunning(out) ==
    IF \E k \in 1..Len(out) : containsRunning(out[k])
    THEN CHOOSE k \in 1..Len(out) : containsRunning(out[k]) /\ \A j \in 1..(k - 1) : ~containsRunning(out[j])
    ELSE 0

\* bool RoboDK::_connect_smart().  o1 is what the first attempt meets, out
\* the lines the launched process prints before its stream ends or stalls,
\* o2 what the attempt made on the marker meets.
_connect_smart(o1, out, o2) ==
    LET c1 == _connect(o1)
        c2 == _connect(o2)
    IN  IF c1.ok THEN [c1 EXCEPT !.ok = TRUE]
        ELSE IF FirstRunning(out) # 0
             THEN [c2 EXCEPT !.wrote = c1.wrote \o c2.wrote]
             ELSE [ok |-> FALSE, COM |-> c1.COM, wrote |-> c1.wrote]

\* _check_connection that keeps the socket it had when no connection is made
_check_connection_SocketKept(com, o1, out, o2) ==
    IF _connected(com)
    THEN [ok |-> TRUE, COM |-> com, wrote |-> << >>]
    ELSE LET c == _connect_smart(o1, out, o2)
         IN  IF c.ok THEN c ELSE [c EXCEPT !.COM = com]

\* bool RoboDK::_check_connection()
_check_connection(com, o1, out, o2) ==
    IF _connected(com)
    THEN [ok |-> TRUE, COM |-> com, wrote |-> << >>]
    ELSE _connect_smart(o1, out, o2)

----------------------------------------------------------------------------
\* Values the operations are called with

\* Item: the handle of a remote object
Item(ptr, type) == [PTR |-> ptr, TYPE |-> type]

aRobot == Item(7, ITEM_TYPE_ROBOT)
aProgram == Item(9, ITEM_TYPE_PROGRAM)
aTarget == Item(5, -1)
Items == {aRobot, aProgram}

\* tJoints
aJoints == [Values |-> << 11, 22 >>, nDOFs |-> 2]

\* Mat: a 4x4 pose, rows and columns numbered from 0
aPose ==
    [r \in 0..3 |-> [c \in 0..3 |->
        IF c = 3 /\ r < 3 THEN 100 * (r + 1) ELSE IF r = c THEN 1 ELSE 0]]

----------------------------------------------------------------------------
\* The primitive calls of an operation, in the order the code makes them

Call(i) == [s |-> "", n |-> 0, item |-> NULL, i |-> i, jnts |-> NULL, mat |-> NULL, vals |-> << >>]

c_check_connection == Call("_check_connection")
c_send_Line(string) == [Call("_send_Line") EXCEPT !.s = string]
c_send_Int(value) == [Call("_send_Int") EXCEPT !.n = value]
c_send_Item(item) == [Call("_send_Item") EXCEPT !.item = item]
c_send_Array_tJoints(jnts) == [Call("_send_Array_tJoints") EXCEPT !.jnts = jnts]
c_send_Array_Mat(mat) == [Call("_send_Array_Mat") EXCEPT !.mat = mat]
c_send_Array(values, nvalues) == [Call("_send_Array") EXCEPT !.vals = values, !.n = nvalues]
c_send_Pose(pose) == [Call("_send_Pose") EXCEPT !.mat = Ptr(pose)]
c_recv_Int == Call("_recv_Int")
c_recv_Item == Call("_recv_Item")
c_check_status == Call("_check_status")
c_set_TIMEOUT(ms) == [Call("_TIMEOUT =") EXCEPT !.n = ms]
c_throw == Call("throw")

\* WaitMove that leaves the timeout raised
\* Item::WaitMove that raises the timeout before the first status
WaitMove_RaisedFirst(this, timeout_sec) ==
    << c_check_connection,
       c_send_Line("WaitMove"),
       c_send_Item(Ptr(this)),
       c_set_TIMEOUT(timeout_sec * 1000),
       c_check_status,
       c_check_status,
       c_set_TIMEOUT(ROBODK_API_TIMEOUT) >>

WaitMove_NoRestore(this, timeout_sec) ==
    << c_check_connection,
       c_send_Line("WaitMove"),
       c_send_Item(Ptr(this)),
       c_check_status,
       c_set_TIMEOUT(timeout_sec * 1000),
       c_check_status >>

\* void Item::WaitMove(double timeout_sec) const
WaitMove(this, timeout_sec) ==
    << c_check_connection,
       c_send_Line("WaitMove"),
       c_send_Item(Ptr(this)),
       c_check_status,
       c_set_TIMEOUT(timeout_sec * 1000),
       c_check_status,
       c_set_TIMEOUT(ROBODK_API_TIMEOUT) >>

\* MoveTarget with the discriminators of joints and pose exchanged
MoveTarget_TagsSwapped(target, joints, mat_target) ==
    IF target # NULL
    THEN << c_send_Int(3), c_send_Array_tJoints(NULL), c_send_Item(target) >>
    ELSE IF joints # NULL
    THEN << c_send_Int(2), c_send_Array_tJoints(joints), c_send_Item(NULL) >>
    ELSE IF mat_target # NULL
    THEN << c_send_Int(1), c_send_Array_Mat(mat_target), c_send_Item(NULL) >>
    ELSE << c_throw >>

\* the three-way encoding of one move target, or the throw
MoveTarget(target, joints, mat_target) ==
    IF target # NULL
    THEN << c_send_Int(3), c_send_Array_tJoints(NULL), c_send_Item(target) >>
    ELSE IF joints # NULL
    THEN << c_send_Int(1), c_send_Array_tJoints(joints), c_send_Item(NULL) >>
    ELSE IF mat_target # NULL
    THEN << c_send_Int(2), c_send_Array_Mat(mat_target), c_send_Item(NULL) >>
    ELSE << c_throw >>

\* _moveX with the trailing wait made whether the move is blocking or not
_moveX_AlwaysWaits(target, joints, mat_target, itemrobot, movetype, blocking) ==
    WaitMove(Deref(itemrobot), WaitMoveDefaultSec)
    \o << c_send_Line("MoveX"), c_send_Int(movetype) >>
    \o MoveTarget(target, joints, mat_target)
    \o << c_send_Item(itemrobot), c_check_status >>
    \o WaitMove(Deref(itemrobot), WaitMoveDefaultSec)

\* void RoboDK::_moveX(target, joints, mat_target, itemrobot, movetype, blocking)
_moveX(target, joints, mat_target, itemrobot, movetype, blocking) ==
    WaitMove(Deref(itemrobot), WaitMoveDefaultSec)
    \o << c_send_Line("MoveX"), c_send_Int(movetype) >>
    \o MoveTarget(target, joints, mat_target)
    \o << c_send_Item(itemrobot), c_check_status >>
    \o (IF blocking THEN WaitMove(Deref(itemrobot), WaitMoveDefaultSec) ELSE << >>)

\* _moveC writing the final target before the intermediate one
_moveC_TargetsSwapped(target1, joints1, mat_target1, target2, joints2, mat_target2, itemrobot, blocking) ==
    WaitMove(Deref(itemrobot), WaitMoveDefaultSec)
    \o << c_send_Line("MoveC"), c_send_Int(3) >>
    \o MoveTarget(target2, joints2, mat_target2)
    \o MoveTarget(target1, joints1, mat_target1)
    \o << c_send_Item(itemrobot), c_check_status >>
    \o (IF blocking THEN WaitMove(Deref(itemrobot), WaitMoveDefaultSec) ELSE << >>)

\* void RoboDK::_moveC(target1, joints1, mat_target1, target2, joints2, mat_target2, itemrobot, blocking)
_moveC(target1, joints1, mat_target1, target2, joints2, mat_target2, itemrobot, blocking) ==
    WaitMove(Deref(itemrobot), WaitMoveDefaultSec)
    \o << c_send_Line("MoveC"), c_send_Int(3) >>
    \o MoveTarget(target1, joints1, mat_target1)
    \o MoveTarget(target2, joints2, mat_target2)
    \o << c_send_Item(itemrobot), c_check_status >>
    \o (IF blocking THEN WaitMove(Deref(itemrobot), WaitMoveDefaultSec) ELSE << >>)

\* the Add_INSMOVE exchange of Item::MoveJ / Item::MoveL on a program item
Add_INSMOVE(this, itemtarget, movetype) ==
    << c_check_connection,
       c_send_Line("Add_INSMOVE"),
       c_send_Item(Ptr(itemtarget)),
       c_send_Item(Ptr(this)),
       c_send_Int(movetype),
       c_check_status >>

\* void Item::MoveJ(const Item&, bool)
MoveJ_Item(this, itemtarget, blocking) ==
    IF this.TYPE = ITEM_TYPE_PROGRAM
    THEN Add_INSMOVE(this, itemtarget, 1)
    ELSE _moveX(Ptr(itemtarget), NULL, NULL, Ptr(this), 1, blocking)

\* void Item::MoveJ(const tJoints&, bool)
MoveJ_tJoints(this, joints, blocking) ==
    _moveX(NULL, Ptr(joints), NULL, Ptr(this), 1, blocking)

\* void Item::MoveJ(const Mat&, bool)
MoveJ_Mat(this, target, blocking) ==
    _moveX(NULL, NULL, Ptr(target), Ptr(this), 1, blocking)

\* void Item::MoveL(const Item&, bool)
\* Item::MoveL(const Item&, bool) without the test of the type of this
MoveL_Item_AlwaysMoveX(this, itemtarget, blocking) ==
    _moveX(Ptr(itemtarget), NULL, NULL, Ptr(this), 2, blocking)

MoveL_Item(this, itemtarget, blocking) ==
    IF this.TYPE = ITEM_TYPE_PROGRAM
    THEN Add_INSMOVE(this, itemtarget, 2)
    ELSE _moveX(Ptr(itemtarget), NULL, NULL, Ptr(this), 2, blocking)

\* void Item::MoveL(const tJoints&, bool)
MoveL_tJoints(this, joints, blocking) ==
    _moveX(NULL, Ptr(joints), NULL, Ptr(this), 2, blocking)

\* void Item::MoveL(const Mat&, bool)
MoveL_Mat(this, target, blocking) ==
    _moveX(NULL, NULL, Ptr(target), Ptr(this), 2, blocking)

\* void Item::MoveC(const Item&, const Item&, bool)
MoveC_Item(this, itemtarget1, itemtarget2, blocking) ==
    _moveC(Ptr(itemtarget1), NULL, NULL, Ptr(itemtarget2), NULL, NULL, Ptr(this), blocking)

\* void Item::MoveC(const tJoints&, const tJoints&, bool)
MoveC_tJoints(this, joints1, joints2, blocking) ==
    _moveC(NULL, Ptr(joints1), NULL, NULL, Ptr(joints2), NULL, Ptr(this), blocking)

\* void Item::MoveC(const Mat&, const Mat&, bool)
MoveC_Mat(this, target1, target2, blocking) ==
    _moveC(NULL, NULL, Ptr(target1), NULL, NULL, Ptr(target2), Ptr(this), blocking)

\* bool Item::Valid()
Valid(this) == this.PTR # 0

\* Item::Delete that leaves the handle as it was
Delete_HandleKept(this) ==
    << c_check_connection,
       c_send_Line("Remove"),
       c_send_Item(Ptr(this)),
       c_check_status >>

\* void Item::Delete()
Delete(this) ==
    << c_check_connection,
       c_send_Line("Remove"),
       c_send_Item(Ptr(this)),
       c_check_status,
       Call("_PTR = 0; _TYPE = -1") >>

\* int Item::Type()
Type(this) ==
    << c_check_connection,
       c_send_Line("G_Item_Type"),
       c_send_Item(Ptr(this)),
       c_recv_Int,
       c_check_status >>

\* void Item::setPose(Mat pose)
setPose(this, pose) ==
    << c_check_connection,
       c_send_Line("S_Hlocal"),
       c_send_Item(Ptr(this)),
       c_send_Pose(pose),
       c_check_status >>

\* Item RoboDK::Popup_ISO9283_CubeProgram(Item *robot, tXYZ center, double side, bool blocking)
\* center is a pointer to three doubles
Popup_ISO9283_CubeProgram(robot, center, side, blocking) ==
    << c_check_connection >>
    \o (IF center = NULL
        THEN << c_send_Line("Popup_ProgISO9283"),
                c_send_Item(robot),
                c_set_TIMEOUT(3600 * 1000),
                c_recv_Item,
                c_set_TIMEOUT(ROBODK_API_TIMEOUT),
                c_check_status >>
        ELSE LET values == Deref(center) \o << side, IF blocking THEN 1 ELSE 0 >>
             IN  << c_send_Line("Popup_ProgISO9283_Param"),
                    c_send_Item(robot),
                    c_send_Array(values, 4) >>
                 \o (IF blocking
                     THEN << c_set_TIMEOUT(3600 * 1000),
                             c_recv_Item,
                             c_set_TIMEOUT(ROBODK_API_TIMEOUT),
                             c_check_status >>
                     ELSE << >>))

----------------------------------------------------------------------------
\* The remote application, seen from the socket

\* status words the remote may send
StatusWords == {0, 1, 2, 3, 5, 9, -1}

\* a message line "A\n", a line not yet ended, half a status word
Chunks == {Bytes32(v) : v \in StatusWords} \cup {<< 65, 10 >>, << 65 >>, << 0, 0 >>}

\* an item reply: the identifier alone, or the identifier and a type tag
ItemChunks == {<< 0, 0, 0, 0, 0, 0, 0, 6 >>, << 0, 0, 0, 0, 0, 0, 0, 6, 0, 0, 0, 8 >>}

\* what may arrive while a receive waits; << >> is the timeout
Arrivals == Chunks \cup {<< >>}

\* the same for a remote that keeps to the protocol: a status word, with
\* its message line behind it or not, while a status word is waited for,
\* and a message line while a line is
WordArrivals == {<< >>, Bytes32(0), Bytes32(3), Bytes32(3) \o << 65, 10 >>}
LineArrivals == {<< >>, << 65, 10 >>}

\* what the launched process prints before its output ends or stalls
ProcessOutputs == {<< >>, << "Loading" >>, << "Loading", "RoboDK is Running" >>}

----------------------------------------------------------------------------
\* State

NoOp ==
    [this |-> aRobot, movetype |-> 0, blocking |-> FALSE, name |-> "none", t1 |-> "", t2 |-> ""]

Op(name, this) == [NoOp EXCEPT !.name = name, !.this = this]

Move(name, this, blocking, t1, t2, movetype) ==
    [this |-> this, movetype |-> movetype, blocking |-> blocking, name |-> name, t1 |-> t1, t2 |-> t2]

\* the value an operation returns
Void == [n |-> 0, type |-> 0, kind |-> "void"]

\* Item iso_program; an item as its constructor leaves it
NoItem == [n |-> 0, type |-> -1, kind |-> "item"]

\* what the operation returns if it assigns nothing to its result
\* (of Delete, which returns nothing, the handle it was called on)
Declared(o) ==
    IF o.name = "Popup_ISO9283_CubeProgram" THEN NoItem
    ELSE IF o.name = "Delete" THEN [n |-> o.this.PTR, type |-> o.this.TYPE, kind |-> "item"]
    ELSE Void

\* RoboDK::RoboDK(): _COM = NULL, _TIMEOUT = ROBODK_API_TIMEOUT, then _connect_smart()
Init ==
    /\ \E o1 \in ConnectOutcomes, o2 \in ConnectOutcomes, out \in ProcessOutputs :
           _COM = _connect_smart(o1, out, o2).COM
    /\ _TIMEOUT = ROBODK_API_TIMEOUT
    /\ rx = << >>
    /\ wire = << >>
    /\ pc = "idle"
    /\ op = NoOp
    /\ prog = << >>
    /\ trace = << >>
    /\ last = NoStatus
    /\ failed = FALSE
    /\ result = Void

\* the remote's bytes reach the socket
RemoteDeliver ==
    /\ _COM = "Connected"
    /\ \E d \in Chunks :
           /\ Len(rx) + Len(d) <= MaxRx
           /\ rx' = rx \o d
    /\ UNCHANGED <<_COM, _TIMEOUT, wire, pc, op, prog, trace, last, failed, result>>

\* a public operation is called
Start(o, calls) ==
    /\ pc # "running"
    /\ pc' = "running"
    /\ op' = o
    /\ prog' = calls
    /\ trace' = << >>
    /\ wire' = << >>
    /\ last' = NoStatus
    /\ failed' = FALSE
    /\ result' = Declared(o)
    /\ UNCHANGED <<_COM, _TIMEOUT, rx>>

TargetKinds == {"item", "joints", "mat"}

Call_WaitMove ==
    \E this \in {aRobot}, timeout_sec \in {2, WaitMoveDefaultSec} :
        Start(Op("WaitMove", this), WaitMove(this, timeout_sec))

Call_MoveJ ==
    \E this \in Items, k \in TargetKinds, blocking \in BOOLEAN :
        Start(Move("MoveJ", this, blocking, k, "", 1),
              IF k = "item" THEN MoveJ_Item(this, aTarget, blocking)
              ELSE IF k = "joints" THEN MoveJ_tJoints(this, aJoints, blocking)
              ELSE MoveJ_Mat(this, aPose, blocking))

Call_MoveL ==
    \E this \in Items, k \in TargetKinds, blocking \in BOOLEAN :
        Start(Move("MoveL", this, blocking, k, "", 2),
              IF k = "item" THEN MoveL_Item(this, aTarget, blocking)
              ELSE IF k = "joints" THEN MoveL_tJoints(this, aJoints, blocking)
              ELSE MoveL_Mat(this, aPose, blocking))

Call_MoveC ==
    \E this \in {aRobot}, k \in TargetKinds, blocking \in BOOLEAN :
        Start(Move("MoveC", this, blocking, k, k, 3),
              IF k = "item" THEN MoveC_Item(this, aTarget, aTarget, blocking)
              ELSE IF k = "joints" THEN MoveC_tJoints(this, aJoints, aJoints, blocking)
              ELSE MoveC_Mat(this, aPose, aPose, blocking))

\* the target a caller of _moveX / _moveC names: at most one of the three
\* pointers, or none of them
PtrIf(k, kind, x) == IF k = kind THEN Ptr(x) ELSE NULL

\* _moveX called with none of the three targets (with one of them it is
\* MoveJ or MoveL above)
Call_moveX ==
    \E movetype \in {1, 2}, blocking \in BOOLEAN :
        Start(Move("_moveX", aRobot, blocking, "none", "", movetype),
              _moveX(NULL, NULL, NULL, Ptr(aRobot), movetype, blocking))

\* _moveC called with two targets of different kinds, or with a target
\* missing (with two of a kind it is MoveC above)
Call_moveC ==
    \E k1 \in TargetKinds \cup {"none"}, k2 \in TargetKinds \cup {"none"}, blocking \in BOOLEAN :
        /\ k1 # k2 \/ k1 = "none"
        /\ Start(Move("_moveC", aRobot, blocking, k1, k2, 3),
              _moveC(PtrIf(k1, "item", aTarget), PtrIf(k1, "joints", aJoints), PtrIf(k1, "mat", aPose),
                     PtrIf(k2, "item", aTarget), PtrIf(k2, "joints", aJoints), PtrIf(k2, "mat", aPose),
                     Ptr(aRobot), blocking))

Call_Type ==
    \E this \in {aRobot} : Start(Op("Type", this), Type(this))

Call_setPose ==
    \E this \in {aRobot} : Start(Op("setPose", this), setPose(this, aPose))

Call_Popup_ISO9283_CubeProgram ==
    \E center \in {NULL, Ptr(<< 1, 2, 3 >>)}, blocking \in BOOLEAN :
        Start([Op("Popup_ISO9283_CubeProgram", aRobot) EXCEPT
                  !.blocking = blocking, !.t1 = IF center = NULL THEN "menu" ELSE "param"],
              Popup_ISO9283_CubeProgram(Ptr(aRobot), center, 50, blocking))

----------------------------------------------------------------------------
\* The operation in progress makes its next primitive call

Running == pc = "running" /\ prog # << >>
Cur == prog[1]

Entry(r) == [s |-> Cur.s, r |-> r, i |-> Cur.i]

Advance(r) ==
    /\ prog' = Tail(prog)
    /\ trace' = Append(trace, Entry(r))

Do_check_connection ==
    /\ Running /\ Cur.i = "_check_connection"
    /\ \E o1 \in ConnectOutcomes, o2 \in ConnectOutcomes, out \in ProcessOutputs :
           LET c == _check_connection(_COM, o1, out, o2)
           IN  /\ _COM' = c.COM
               /\ wire' = wire \o c.wrote
               /\ rx' = IF _connected(_COM) THEN rx ELSE << >>
               /\ Advance(IF c.ok THEN "connected" ELSE "not connected")
    /\ UNCHANGED <<_TIMEOUT, pc, op, last, failed, result>>

\* the fields one send call writes
Sent(com, c) ==
    IF c.i = "_send_Line" THEN _send_Line(com, c.s)
    ELSE IF c.i = "_send_Int" THEN _send_Int(com, c.n)
    ELSE IF c.i = "_send_Item" THEN _send_Item(com, c.item)
    ELSE IF c.i = "_send_Array_tJoints" THEN _send_Array_tJoints(com, c.jnts)
    ELSE IF c.i = "_send_Array_Mat" THEN _send_Array_Mat(com, c.mat)
    ELSE IF c.i = "_send_Array" THEN _send_Array(com, c.vals, c.n)
    ELSE _send_Pose(com, Deref(c.mat))

SendCalls ==
    {"_send_Line", "_send_Int", "_send_Item", "_send_Array_tJoints", "_send_Array_Mat",
     "_send_Array", "_send_Pose"}

Do_send ==
    /\ Running /\ Cur.i \in SendCalls
    /\ wire' = wire \o Sent(_COM, Cur)
    /\ Advance(IF isOpen(_COM) THEN "sent" ELSE "not sent")
    /\ UNCHANGED <<_COM, _TIMEOUT, rx, pc, op, last, failed, result>>

\* how a status decode ended: no status word was read, or the word read
\* was decoded as success or as failure
Outcome(c) == IF ~c.read THEN "nodata" ELSE IF c.ret THEN "fail" ELSE "ok"

\* a status decode that drops the connection when the remote reports a failure
Do_check_status_ClosesOnFailure(words, lines) ==
    /\ Running /\ Cur.i = "_check_status"
    /\ \E d1 \in words, d2 \in lines :
           LET c == _check_status(_COM, rx, d1, d2)
           IN  /\ rx' = c.rest
               /\ last' = c
               /\ failed' = (failed \/ Outcome(c) # "ok")
               /\ _COM' = IF Outcome(c) = "fail" THEN "NULL" ELSE _COM
               /\ Advance("")
    /\ UNCHANGED <<_TIMEOUT, wire, pc, op, result>>

Do_check_status(words, lines) ==
    /\ Running /\ Cur.i = "_check_status"
    /\ \E d1 \in words, d2 \in lines :
           LET c == _check_status(_COM, rx, d1, d2)
           IN  /\ rx' = c.rest
               /\ last' = c
               /\ failed' = (failed \/ Outcome(c) # "ok")
               /\ Advance("")
    /\ UNCHANGED <<_COM, _TIMEOUT, wire, pc, op, result>>

Do_recv_Int(words) ==
    /\ Running /\ Cur.i = "_recv_Int"
    /\ \E d \in words :
           LET r == _recv_Int(_COM, rx, d)
           IN  /\ rx' = r.rest
               /\ result' = [n |-> r.value, type |-> 0, kind |-> "int"]
               /\ failed' = (failed \/ ~r.read)
               /\ Advance("")
    /\ UNCHANGED <<_COM, _TIMEOUT, wire, pc, op, last>>

Do_recv_Item ==
    /\ Running /\ Cur.i = "_recv_Item"
    /\ \E d \in ItemChunks \cup {<< >>} :
           LET r == _recv_Item(_COM, rx, d)
           IN  /\ rx' = r.rest
               /\ result' = [n |-> r.PTR, type |-> r.TYPE, kind |-> "item"]
               /\ failed' = (failed \/ ~r.read)
               /\ Advance("")
    /\ UNCHANGED <<_COM, _TIMEOUT, wire, pc, op, last>>

Call_Delete ==
    \E this \in Items : Start(Op("Delete", this), Delete(this))

\* _PTR = 0; _TYPE = -1;
Do_Delete ==
    /\ Running /\ Cur.i = "_PTR = 0; _TYPE = -1"
    /\ result' = [n |-> 0, type |-> -1, kind |-> "item"]
    /\ Advance("")
    /\ UNCHANGED <<_COM, _TIMEOUT, rx, wire, pc, op, last, failed>>

\* an assignment of the timeout that raises it and never lowers it
Do_set_TIMEOUT_RaisedOnly ==
    /\ Running /\ Cur.i = "_TIMEOUT ="
    /\ _TIMEOUT' = (IF Cur.n > _TIMEOUT THEN Cur.n ELSE _TIMEOUT)
    /\ Advance("")
    /\ UNCHANGED <<_COM, rx, wire, pc, op, last, failed, result>>

Do_set_TIMEOUT ==
    /\ Running /\ Cur.i = "_TIMEOUT ="
    /\ _TIMEOUT' = Cur.n
    /\ Advance("")
    /\ UNCHANGED <<_COM, rx, wire, pc, op, last, failed, result>>

\* throw 0: the operation ends there
Do_throw ==
    /\ Running /\ Cur.i = "throw"
    /\ pc' = "thrown"
    /\ prog' = << >>
    /\ trace' = Append(trace, Entry(""))
    /\ result' = [n |-> 0, type |-> 0, kind |-> "exception"]
    /\ UNCHANGED <<_COM, _TIMEOUT, rx, wire, op, last, failed>>

Return ==
    /\ pc = "running" /\ prog = << >>
    /\ pc' = "returned"
    /\ UNCHANGED <<_COM, _TIMEOUT, rx, wire, op, prog, trace, last, failed, result>>

\* Every operation, against a remote that keeps to the protocol or is late
Next ==
    \/ Call_WaitMove
    \/ Call_MoveJ
    \/ Call_MoveL
    \/ Call_MoveC
    \/ Call_moveX
    \/ Call_moveC
    \/ Call_Type
    \/ Call_setPose
    \/ Call_Popup_ISO9283_CubeProgram
    \/ Call_Delete
    \/ Do_Delete
    \/ Do_check_connection
    \/ Do_send
    \/ Do_check_status(WordArrivals, LineArrivals)
    \/ Do_recv_Int(WordArrivals)
    \/ Do_recv_Item
    \/ Do_set_TIMEOUT
    \/ Do_throw
    \/ Return

Spec == Init /\ [][Next]_vars

\* The single-exchange operations, against a remote that may send any
\* bytes at any time
\* the peer closes the connection between two operations: the client
\* holds its socket, the state of which is ConnectedState no more
PeerCloses ==
    /\ pc # "running"
    /\ _COM = "Connected"
    /\ _COM' = "Unconnected"
    /\ UNCHANGED <<_TIMEOUT, rx, wire, pc, op, prog, trace, last, failed, result>>

NextPeer ==
    \/ Call_WaitMove
    \/ Call_MoveJ
    \/ Call_MoveL
    \/ Call_MoveC
    \/ Call_moveX
    \/ Call_moveC
    \/ Call_Type
    \/ Call_setPose
    \/ Call_Popup_ISO9283_CubeProgram
    \/ Call_Delete
    \/ Do_Delete
    \/ PeerCloses
    \/ Do_check_connection
    \/ Do_send
    \/ Do_check_status(WordArrivals, LineArrivals)
    \/ Do_recv_Int(WordArrivals)
    \/ Do_recv_Item
    \/ Do_set_TIMEOUT
    \/ Do_throw
    \/ Return

SpecPeer == Init /\ [][NextPeer]_vars

NextDecoder ==
    \/ RemoteDeliver
    \/ Call_Type
    \/ Call_setPose
    \/ Do_check_connection
    \/ Do_send
    \/ Do_check_status(Arrivals, Arrivals)
    \/ Do_recv_Int(Arrivals)
    \/ Return

SpecDecoder == Init /\ [][NextDecoder]_vars

----------------------------------------------------------------------------
\* The connection manager, one statement at a time

\* _disconnect leaving the socket in place
_disconnect_KeepsSocket(com) == com

\* void RoboDK::_disconnect(): the socket it leaves
_disconnect(com) == IF com # "NULL" THEN "NULL" ELSE com

\* a failure path of _connect that returns with the socket kept
TornDown_Kept(com) == com

\* _COM->deleteLater(); _COM = NULL;
TornDown(com) == "NULL"

\* QString(QByteArray): the characters of the bytes a reply may hold
Chr(b) ==
    IF b = 82 THEN "R" ELSE IF b = 69 THEN "E" ELSE IF b = 65 THEN "A"
    ELSE IF b = 68 THEN "D" ELSE IF b = 89 THEN "Y" ELSE IF b = 78 THEN "N"
    ELSE IF b = 79 THEN "O" ELSE IF b = 114 THEN "r" ELSE IF b = 101 THEN "e"
    ELSE IF b = 97 THEN "a" ELSE IF b = 100 THEN "d" ELSE IF b = 121 THEN "y"
    ELSE IF b = 32 THEN " " ELSE IF b = ROBODK_API_LF THEN "\n" ELSE "?"

RECURSIVE QString(_)
QString(bytes) == IF bytes = << >> THEN "" ELSE Chr(bytes[1]) \o QString(Tail(bytes))

\* the prefix looked for anywhere in the string
startsWith_Anywhere(string, prefix) ==
    \E k \in 1..(Len(string) - Len(prefix) + 1) : SubSeq(string, k, k + Len(prefix) - 1) = prefix

\* QString::startsWith
startsWith(string, prefix) ==
    Len(string) >= Len(prefix) /\ SubSeq(string, 1, Len(prefix)) = prefix

\* what may arrive while _connect waits for the reply: nothing, "READY\n",
\* "READY" with more behind it, a reply cut short, another reply, "ready\n",
\* " READY\n"
Replies ==
    {<< >>, << 82, 69, 65, 68, 89, 10 >>, << 82, 69, 65, 68, 89, 32, 79, 10 >>, << 82, 69, 65 >>,
     << 78, 79, 10 >>, << 114, 101, 97, 100, 121, 10 >>, << 32, 82, 69, 65, 68, 89, 10 >>}

\* lines the launched process may print
StdoutLines == {"Loading", "Loading plugins", "RoboDK is Running", "ROBODK IS RUNNING"}

c_disconnect == Call("_disconnect")
c_connectToHost == Call("connectToHost")
c_write(string) == [Call("write") EXCEPT !.s = string]
c_waitForReadyRead == Call("waitForReadyRead")
c_readAll == Call("readAll")
c_start == Call("QProcess::start")
c_readLine == Call("readLine")

\* the statements of RoboDK::_connect, up to the first that returns
Steps_connect ==
    << c_disconnect,
       c_connectToHost,
       c_write(ROBODK_API_START_STRING),
       c_write("1 0"),
       c_waitForReadyRead,
       c_readAll >>

\* a bool returned
Bool(b) == [n |-> IF b THEN 1 ELSE 0, type |-> 0, kind |-> "bool"]

\* _connect_smart has started the process
ProcessStarted == \E k \in 1..Len(trace) : trace[k].i = "QProcess::start"

\* _connect_smart that starts the process whatever its first attempt gave
AfterConnect_StartsAlways(is_connected) ==
    IF op.name \in {"_connect_smart", "RoboDK"} /\ ~ProcessStarted
    THEN << c_start, c_readLine >>
    ELSE << >>

\* what follows a return of _connect: _connect_smart starts the process
\* when its first attempt failed; otherwise the bool is handed back
AfterConnect(is_connected) ==
    IF ~is_connected /\ op.name \in {"_connect_smart", "RoboDK"} /\ ~ProcessStarted
    THEN << c_start, c_readLine >>
    ELSE << >>

ConnectReturns(is_connected, r) ==
    /\ prog' = AfterConnect(is_connected)
    /\ trace' = Append(trace, Entry(r))
    /\ result' = Bool(is_connected)

Call_connect == Start(Op("_connect", aRobot), Steps_connect)

Call_connect_smart == Start(Op("_connect_smart", aRobot), Steps_connect)

ROBODK_DEFAULT_PORT == 20500

\* RoboDK::RoboDK(robodk_ip, com_port, args, path): the port and the
\* arguments the client keeps
RoboDK(com_port, args) ==
    [_PORT |-> IF com_port < 0 THEN ROBODK_DEFAULT_PORT ELSE com_port,
     _ARGUMENTS |-> IF com_port > 0 THEN args \o " /PORT=" \o ToString(com_port) ELSE args]

\* the ports and the arguments a client is constructed with
Ports == {-1, 0, 1, ROBODK_DEFAULT_PORT, ROBODK_DEFAULT_PORT + 1}
Arguments == {"", "/NOSPLASH /NOSHOW"}

\* a client is constructed: the fields are set, then _connect_smart()
Call_RoboDK ==
    \E com_port \in Ports, args \in Arguments :
        Start(Move("RoboDK", aRobot, FALSE, args, "", com_port), << Call("RoboDK") >> \o Steps_connect)

Do_RoboDK ==
    /\ Running /\ Cur.i = "RoboDK"
    /\ _COM' = "NULL"
    /\ _TIMEOUT' = ROBODK_API_TIMEOUT
    /\ rx' = << >>
    /\ LET this == RoboDK(op.movetype, op.t1)
       IN  trace' = Append(trace, [s |-> this._ARGUMENTS, r |-> this._PORT, i |-> Cur.i])
    /\ prog' = Tail(prog)
    /\ UNCHANGED <<wire, pc, op, last, failed, result>>

\* _disconnect called once, or several times in a row
Call_disconnect ==
    \E times \in 1..3 :
        Start(Op("_disconnect", aRobot), [k \in 1..times |-> c_disconnect])

Do_disconnect ==
    /\ Running /\ Cur.i = "_disconnect"
    /\ _COM' = _disconnect(_COM)
    /\ rx' = IF _COM # "NULL" THEN << >> ELSE rx
    /\ Advance(IF _COM # "NULL" THEN "deleted" ELSE "")
    /\ UNCHANGED <<_TIMEOUT, wire, pc, op, last, failed, result>>

\* _COM = new QTcpSocket(); connectToHost; waitForConnected(_TIMEOUT)
Do_connectToHost ==
    /\ Running /\ Cur.i = "connectToHost"
    /\ rx' = << >>
    /\ \E waitForConnected \in BOOLEAN :
           IF waitForConnected
           THEN /\ _COM' = "Connected"
                /\ Advance("connected")
                /\ UNCHANGED result
           ELSE /\ _COM' = TornDown("Connected")
                /\ ConnectReturns(FALSE, "timeout")
    /\ UNCHANGED <<_TIMEOUT, wire, pc, op, last, failed>>

\* _COM->write(...); _COM->write(ROBODK_API_LF, 1);
Do_write ==
    /\ Running /\ Cur.i = "write"
    /\ wire' = Append(wire, TLine(Cur.s))
    /\ Advance("sent")
    /\ UNCHANGED <<_COM, _TIMEOUT, rx, pc, op, last, failed, result>>

\* if (!_COM->canReadLine() && !_COM->waitForReadyRead(_TIMEOUT))
Do_waitForReadyRead ==
    /\ Running /\ Cur.i = "waitForReadyRead"
    /\ \E d \in Replies :
           IF ~canReadLine(rx) /\ d = << >>
           THEN /\ _COM' = TornDown(_COM)
                /\ rx' = << >>
                /\ ConnectReturns(FALSE, "timeout")
           ELSE /\ rx' = (IF canReadLine(rx) THEN rx ELSE rx \o d)
                /\ Advance("ready")
                /\ UNCHANGED <<_COM, result>>
    /\ UNCHANGED <<_TIMEOUT, wire, pc, op, last, failed>>

\* QString read(_COM->readAll()); if (!read.startsWith(ROBODK_API_READY_STRING))
Do_readAll ==
    /\ Running /\ Cur.i = "readAll"
    /\ LET read == QString(rx)
       IN  IF ~startsWith(read, ROBODK_API_READY_STRING)
           THEN /\ _COM' = TornDown(_COM)
                /\ ConnectReturns(FALSE, read)
           ELSE /\ UNCHANGED _COM
                /\ ConnectReturns(TRUE, read)
    /\ rx' = << >>
    /\ UNCHANGED <<_TIMEOUT, wire, pc, op, last, failed>>

\* p->start(_ROBODK_BIN, ...)
Do_start ==
    /\ Running /\ Cur.i = "QProcess::start"
    /\ Advance("")
    /\ UNCHANGED <<_COM, _TIMEOUT, rx, wire, pc, op, last, failed, result>>

\* the calls made, the latest reading of a line without the marker left
\* out: readings that follow one another are kept as one, the latest
Looped ==
    IF Len(trace) > 0 /\ trace[Len(trace)].i = "readLine"
    THEN SubSeq(trace, 1, Len(trace) - 1)
    ELSE trace

\* one turn of while (p->canReadLine() || p->waitForReadyRead(5000)):
\* no line comes within the 5000 ms (or the stream is closed) and the loop
\* ends, or a line is read: with the marker _connect is called, without it
\* the loop goes round
Do_readLine ==
    /\ Running /\ Cur.i = "readLine"
    /\ \/ /\ prog' = << >>
          /\ trace' = Append(Looped, [s |-> "", r |-> "no line", i |-> "readLine"])
          /\ result' = Bool(FALSE)
       \/ \E line \in StdoutLines :
              /\ prog' = (IF containsRunning(line) THEN Steps_connect ELSE << c_readLine >>)
              /\ trace' = Append(Looped, [s |-> line, r |-> "", i |-> "readLine"])
              /\ UNCHANGED result
    /\ UNCHANGED <<_COM, _TIMEOUT, rx, wire, pc, op, last, failed>>

NextConnect ==
    \/ Call_connect
    \/ Call_connect_smart
    \/ Call_disconnect
    \/ Call_RoboDK
    \/ Do_RoboDK
    \/ Do_disconnect
    \/ Do_connectToHost
    \/ Do_write
    \/ Do_waitForReadyRead
    \/ Do_readAll
    \/ Do_start
    \/ Do_readLine
    \/ Return

SpecConnect == Init /\ [][NextConnect]_vars

\* the client's thread runs on: a statement that can be executed is
ClientStep ==
    \/ Do_RoboDK
    \/ Do_disconnect
    \/ Do_connectToHost
    \/ Do_write
    \/ Do_waitForReadyRead
    \/ Do_readAll
    \/ Do_start
    \/ Do_readLine
    \/ Return

SpecConnectLive == SpecConnect /\ WF_vars(ClientStep)

----------------------------------------------------------------------------
\* Arrays of doubles and 2D matrices

\* QDataStream >> double and << double: eight bytes, big endian.  A double
\* is stood for by the integer its 64 bits spell, those above 2^31 - 1 all
\* by 2^31 - 1.
Double(b) == UInt64(b)
Bytes64(v) == << 0, 0, 0, 0 >> \o Bytes32(v)

\* bool RoboDK::_recv_Array(double *values, int *psize).  values are the
\* caller's slots, psize points to the caller's count or is NULL; d1 is what
\* arrives while the count is waited for, d2 while the doubles are.
_recv_Array_NoCeiling(com, buf, d1, d2, values, psize) ==
    LET r == _recv_Int(com, buf, d1)
        nvalues == r.value
        size == nvalues * 8
        b == IF Len(r.rest) < size THEN r.rest \o d2 ELSE r.rest
        size_out == IF psize # NULL THEN Ptr(nvalues) ELSE psize
    IN  IF com = "NULL" \/ nvalues < 0
        THEN [rest |-> r.rest, took |-> r.took, ret |-> FALSE, vals |-> values, psize |-> psize]
        ELSE IF Len(b) < size
        THEN [rest |-> b, took |-> r.took, ret |-> FALSE, vals |-> values, psize |-> size_out]
        ELSE [rest |-> Drop(b, size), took |-> r.took \o Take(b, size), ret |-> TRUE,
              vals |-> [i \in 1..nvalues |-> Double(SubSeq(b, 8 * i - 7, 8 * i))]
                           \o Drop(values, nvalues),
              psize |-> size_out]

_recv_Array(com, buf, d1, d2, values, psize) ==
    LET r == _recv_Int(com, buf, d1)
        nvalues == r.value
        size == nvalues * 8
        b == IF Len(r.rest) < size THEN r.rest \o d2 ELSE r.rest
        size_out == IF psize # NULL THEN Ptr(nvalues) ELSE psize
    IN  IF com = "NULL" \/ nvalues < 0
        THEN [rest |-> r.rest, took |-> r.took, ret |-> FALSE, vals |-> values, psize |-> psize]
        ELSE IF nvalues < 0 \/ nvalues > 50
        THEN [rest |-> r.rest, took |-> r.took, ret |-> FALSE, vals |-> values, psize |-> size_out]
        ELSE IF Len(b) < size
        THEN [rest |-> b, took |-> r.took, ret |-> FALSE, vals |-> values, psize |-> size_out]
        ELSE [rest |-> Drop(b, size), took |-> r.took \o Take(b, size), ret |-> TRUE,
              vals |-> [i \in 1..nvalues |-> Double(SubSeq(b, 8 * i - 7, 8 * i))]
                           \o Drop(values, nvalues),
              psize |-> size_out]

\* tMatrix2D* Matrix2D_Create(): no data, size 0 x 0
Matrix2D_Create == [size |-> << 0, 0 >>, data |-> << >>, allocatedSize |-> 0]

\* a loop that stops at the number of elements asked for
Doubled_ToNewNumel(i, newNumel) == IF i < newNumel THEN newNumel ELSE i

\* the while loop of emxEnsureCapacity
RECURSIVE Doubled(_, _)
Doubled(i, newNumel) ==
    IF i < newNumel
    THEN Doubled(IF i > 1073741823 THEN 2147483647 ELSE 2 * i, newNumel)
    ELSE i

\* void emxEnsureCapacity(tMatrix2D*, int oldNumel, unsigned int elementSize)
emxEnsureCapacity(emxArray, oldNumel) ==
    LET old == IF oldNumel < 0 THEN 0 ELSE oldNumel
        newNumel == emxArray.size[1] * emxArray.size[2]
        i == Doubled(IF emxArray.allocatedSize < 16 THEN 16 ELSE emxArray.allocatedSize, newNumel)
    IN  IF newNumel > emxArray.allocatedSize
        THEN [emxArray EXCEPT
                 !.data = [k \in 1..i |-> IF k <= old /\ k <= Len(emxArray.data)
                                          THEN emxArray.data[k] ELSE 0],
                 !.allocatedSize = i]
        ELSE emxArray

\* void Matrix2D_Set_Size(tMatrix2D*, int rows, int cols)
Matrix2D_Set_Size(mat, rows, cols) ==
    emxEnsureCapacity([mat EXCEPT !.size = << rows, cols >>], mat.size[1] * mat.size[2])

\* int Matrix2D_Size(const tMatrix2D*, int dim), dim counted from 1
Matrix2D_Size(var, dim) == IF 2 >= dim THEN var.size[dim] ELSE 0

\* double Matrix2D_Get_ij(const tMatrix2D*, int i, int j), counted from 0
Matrix2D_Get_ij(var, i, j) == var.data[var.size[1] * j + i + 1]

\* bool RoboDK::_send_Matrix2D(tMatrix2D*)
_send_Matrix2D(com, mat) ==
    IF ~isOpen(com) THEN << >>
    ELSE LET dim1 == Matrix2D_Size(mat, 1)
             dim2 == Matrix2D_Size(mat, 2)
         IN  _send_Int(com, dim1) \o _send_Int(com, dim2)
             \o [k \in 1..(dim1 * dim2) |->
                    TDbl(Matrix2D_Get_ij(mat, (k - 1) % dim1, (k - 1) \div dim1))]

\* the doubles QDataStream reads off one buffer until atEnd: every whole
\* group of eight bytes, and 0.0 for a last group cut short
DoublesOf(buffer) ==
    [k \in 1..((Len(buffer) + 7) \div 8) |->
        IF 8 * k <= Len(buffer) THEN Double(SubSeq(buffer, 8 * k - 7, 8 * k)) ELSE 0]

\* what waitForReadyRead finds: the next delivery of ds, << >> when none
\* comes before the timeout
NextDelivery(ds) == IF ds = << >> THEN << >> ELSE ds[1]
LaterDeliveries(ds) == IF ds = << >> THEN << >> ELSE Tail(ds)

\* _recv_Int with the deliveries ds to come: a delivery is taken only if
\* the call has to wait
RecvIntFrom(com, buf, ds) ==
    LET r == _recv_Int(com, buf, NextDelivery(ds))
    IN  [value |-> r.value, rest |-> r.rest,
         ds |-> IF com # "NULL" /\ Len(buf) < 4 THEN LaterDeliveries(ds) ELSE ds]

\* the while (true) loop of _recv_Matrix2D: count values are in mat so far
RECURSIVE RecvLoop(_, _, _, _)
RecvLoop(buf, ds, mat, count) ==
    LET remaining == mat.size[1] * mat.size[2] - count
        waits == Len(buf) <= 0
        b == IF waits THEN NextDelivery(ds) ELSE buf
        buffer == Take(b, remaining * 8)
        values == DoublesOf(buffer)
    IN  IF remaining <= 0 THEN [rest |-> buf, mat |-> Ptr(mat), ret |-> TRUE]
        ELSE IF waits /\ b = << >> THEN [rest |-> buf, mat |-> NULL, ret |-> FALSE]
        ELSE RecvLoop(Drop(b, remaining * 8),
                      IF waits THEN LaterDeliveries(ds) ELSE ds,
                      [mat EXCEPT !.data = [k \in 1..Len(mat.data) |->
                          IF k > count /\ k <= count + Len(values)
                          THEN values[k - count] ELSE mat.data[k]]],
                      count + Len(values))

\* bool RoboDK::_recv_Matrix2D(tMatrix2D **mat): the bool, the buffer left and
\* what *mat is left pointing to
_recv_Matrix2D(com, buf, ds) ==
    LET r1 == RecvIntFrom(com, buf, ds)
        r2 == RecvIntFrom(com, r1.rest, r1.ds)
        dim1 == r1.value
        dim2 == r2.value
    IN  IF dim1 < 0 \/ dim2 < 0
        THEN [rest |-> r2.rest, mat |-> Ptr(Matrix2D_Create), ret |-> FALSE]
        ELSE IF dim1 * dim2 <= 0
        THEN [rest |-> r2.rest, mat |-> Ptr(Matrix2D_Set_Size(Matrix2D_Create, dim1, dim2)), ret |-> TRUE]
        ELSE RecvLoop(r2.rest, r2.ds, Matrix2D_Set_Size(Matrix2D_Create, dim1, dim2), 0)

\* a matrix of rows x cols holding values, column after column
MatrixOf(rows, cols, values) ==
    LET m == Matrix2D_Set_Size(Matrix2D_Create, rows, cols)
    IN  [m EXCEPT !.data = [k \in 1..Len(m.data) |-> IF k <= Len(values) THEN values[k] ELSE 0]]

\* the matrices the remote sends
SentMatrices ==
    {MatrixOf(0, 0, << >>), MatrixOf(1, 2, << 11, 12 >>), MatrixOf(2, 1, << 11, 12 >>),
     MatrixOf(2, 2, << 11, 21, 12, 22 >>)}

\* the bytes of fields written with QDataStream (ints and doubles)
RECURSIVE OnWire(_)
OnWire(fields) ==
    IF fields = << >> THEN << >>
    ELSE (IF fields[1].t = "int" THEN Bytes32(fields[1].n) ELSE Bytes64(fields[1].n))
         \o OnWire(Tail(fields))

\* the ways a stream reaches the socket in at most n deliveries, each of 1,
\* 2 or 3 bytes or of a multiple of 4 bytes; what is not delivered does not
\* come before the timeout
RECURSIVE Splits(_, _)
Splits(stream, n) ==
    {<< >>} \cup
    (IF n = 0 THEN {}
     ELSE UNION {{<< Take(stream, k) >> \o later : later \in Splits(Drop(stream, k), n - 1)} :
                    k \in {j \in 1..Len(stream) : j < 4 \/ j % 4 = 0}})

\* the slots and the count of the caller of _recv_Array, before the call
CallerValues == << -7, -7, -7 >>
CallerSizes == {NULL, Ptr(-7)}

\* what may arrive while _recv_Array waits for the count (a half count, a
\* count alone or with doubles behind it, a count above 50 alone, with one
\* double or with all its doubles behind it), and for the doubles
CountArrivals ==
    {<< >>, << 0, 0 >>, Bytes32(-1), Bytes32(0), Bytes32(2),
     Bytes32(2) \o Bytes64(11) \o Bytes64(12),
     Bytes32(51), Bytes32(51) \o Bytes64(11),
     Bytes32(51) \o [k \in 1..408 |-> IF k % 8 = 0 THEN 9 ELSE 0]}
DoubleArrivals == {<< >>, Bytes64(11), Bytes64(11) \o Bytes64(12)}

c_recv_Array(psize) == [Call("_recv_Array") EXCEPT !.item = psize]
c_recv_Matrix2D == Call("_recv_Matrix2D")
c_send_Matrix2D(mat) == [Call("_send_Matrix2D") EXCEPT !.mat = Ptr(mat)]

\* an array or a matrix is read from the start of an answer of the remote:
\* the operation starts when the bytes of the answer before are all read
Call_recv_Array ==
    /\ rx = << >>
    /\ \E psize \in CallerSizes : Start(Op("_recv_Array", aRobot), << c_recv_Array(psize) >>)

Call_recv_Matrix2D ==
    /\ rx = << >>
    /\ Start(Op("_recv_Matrix2D", aRobot), << c_recv_Matrix2D >>)

Call_send_Matrix2D ==
    /\ rx = << >>
    /\ \E mat \in SentMatrices : Start(Op("_send_Matrix2D", aRobot), << c_send_Matrix2D(mat) >>)

Do_recv_Array ==
    /\ Running /\ Cur.i = "_recv_Array"
    /\ \E d1 \in CountArrivals, d2 \in DoubleArrivals :
           LET a == _recv_Array(_COM, rx, d1, d2, CallerValues, Cur.item)
           IN  /\ rx' = a.rest
               /\ result' = [n |-> IF a.ret THEN 1 ELSE 0, type |-> 0, vals |-> a.vals,
                             kind |-> "array", psize |-> a.psize]
               /\ failed' = (failed \/ ~a.ret)
               /\ prog' = Tail(prog)
               /\ trace' = Append(trace, [s |-> << d1, d2 >>, r |-> a.took, i |-> Cur.i])
    /\ UNCHANGED <<_COM, _TIMEOUT, wire, pc, op, last>>

\* the remote sends a matrix, which reaches the socket in deliveries
Do_recv_Matrix2D ==
    /\ Running /\ Cur.i = "_recv_Matrix2D"
    /\ \E sent \in SentMatrices :
         \E ds \in Splits(OnWire(_send_Matrix2D("Connected", sent)), MaxDeliveries) :
           LET a == _recv_Matrix2D(_COM, rx, ds)
           IN  /\ rx' = a.rest
               /\ result' = [n |-> IF a.ret THEN 1 ELSE 0, mat |-> a.mat, type |-> 0,
                             kind |-> "matrix"]
               /\ failed' = (failed \/ ~a.ret)
               /\ prog' = Tail(prog)
               /\ trace' = Append(trace, [s |-> ds, r |-> sent, i |-> Cur.i])
    /\ UNCHANGED <<_COM, _TIMEOUT, wire, pc, op, last>>

Do_send_Matrix2D ==
    /\ Running /\ Cur.i = "_send_Matrix2D"
    /\ wire' = wire \o _send_Matrix2D(_COM, Deref(Cur.mat))
    /\ result' = Bool(isOpen(_COM))
    /\ Advance(IF isOpen(_COM) THEN "sent" ELSE "not sent")
    /\ UNCHANGED <<_COM, _TIMEOUT, rx, pc, op, last, failed>>

\* Matrices that grow

\* Matrix2D_Add(tMatrix2D*, const double*, int) that does not keep the
\* columns the matrix has when its memory grows
Matrix2D_Add_OldColumnsLost(var, array, numel) ==
    LET size1 == var.size[1]
        size2 == var.size[2]
        grown == emxEnsureCapacity([var EXCEPT !.size = << size1, size2 + 1 >>], 0)
        n == IF numel < size1 THEN numel ELSE size1
    IN  [grown EXCEPT !.data = [k \in 1..Len(grown.data) |->
            IF k > size1 * size2 /\ k <= size1 * size2 + n
            THEN array[k - size1 * size2] ELSE grown.data[k]]]

\* void Matrix2D_Add(tMatrix2D *var, const double *array, int numel)
Matrix2D_Add(var, array, numel) ==
    LET size1 == var.size[1]
        size2 == var.size[2]
        oldnumel == size1 * size2
        grown == emxEnsureCapacity([var EXCEPT !.size = << size1, size2 + 1 >>], oldnumel)
        n == IF numel < size1 THEN numel ELSE size1
    IN  [grown EXCEPT !.data = [k \in 1..Len(grown.data) |->
            IF k > size1 * size2 /\ k <= size1 * size2 + n
            THEN array[k - size1 * size2] ELSE grown.data[k]]]

\* Matrix2D_Add(tMatrix2D*, const tMatrix2D*) without the check of the rows
Matrix2D_Add_tMatrix2D_AnyRows(var, varadd) ==
    LET size1 == var.size[1]
        size2 == var.size[2]
        numel == varadd.size[1] * varadd.size[2]
        grown == emxEnsureCapacity([var EXCEPT !.size = << size1, size2 + varadd.size[2] >>],
                                   size1 * size2)
    IN  [grown EXCEPT !.data = [k \in 1..Len(grown.data) |->
            IF k > size1 * size2 /\ k <= size1 * size2 + numel /\ k - size1 * size2 <= Len(varadd.data)
            THEN varadd.data[k - size1 * size2] ELSE grown.data[k]]]

\* void Matrix2D_Add(tMatrix2D *var, const tMatrix2D *varadd)
Matrix2D_Add_tMatrix2D(var, varadd) ==
    LET size1 == var.size[1]
        size2 == var.size[2]
        size1_ap == varadd.size[1]
        size2_ap == varadd.size[2]
        numel == size1_ap * size2_ap
        oldnumel == size1 * size2
        grown == emxEnsureCapacity([var EXCEPT !.size = << size1, size2 + size2_ap >>], oldnumel)
    IN  IF size1 # size1_ap THEN var
        ELSE [grown EXCEPT !.data = [k \in 1..Len(grown.data) |->
                 IF k > size1 * size2 /\ k <= size1 * size2 + numel
                 THEN varadd.data[k - size1 * size2] ELSE grown.data[k]]]

\* the array appended as column j: four values
Column(j) == [i \in 1..4 |-> 10 * j + i]

\* a matrix of the given rows to which columns 1..k were appended, the
\* numbers in them raised by base
RECURSIVE Columns(_, _, _)
Columns(rows, k, base) ==
    IF k = 0 THEN Matrix2D_Set_Size(Matrix2D_Create, rows, 0)
    ELSE Matrix2D_Add(Columns(rows, k - 1, base), [i \in 1..4 |-> base + 10 * k + i], rows)

\* the matrices another matrix is appended to, and those appended
Vars == {Columns(rows, k, 0) : rows \in 1..3, k \in {0, 2, 5}}
VarsAdded == {Columns(rows, k, 100) : rows \in 1..3, k \in {0, 1, 5}}

MatrixResult(mat) == [n |-> 0, mat |-> Ptr(mat), type |-> 0, kind |-> "matrix"]

\* a matrix with rows and no columns, then k columns appended one by one
Call_Matrix2D_Add ==
    /\ rx = << >>
    /\ \E rows \in 0..3, k \in 0..MaxColumns, numel \in {3, 4} :
           Start(Op("Matrix2D_Add", aRobot),
                 << [Call("Matrix2D_Set_Size") EXCEPT !.n = rows] >> \o
                 [j \in 1..k |-> [Call("Matrix2D_Add") EXCEPT !.vals = Column(j), !.n = numel]])

Call_Matrix2D_Add_tMatrix2D ==
    /\ rx = << >>
    /\ \E var \in Vars, varadd \in VarsAdded :
           Start(Op("Matrix2D_Add(varadd)", aRobot),
                 << [Call("var") EXCEPT !.mat = Ptr(var)],
                    [Call("Matrix2D_Add(varadd)") EXCEPT !.mat = Ptr(varadd)] >>)

\* the matrix the calls that follow work on
Do_Matrix2D_Set_Size ==
    /\ Running /\ Cur.i \in {"Matrix2D_Set_Size", "var"}
    /\ result' = MatrixResult(IF Cur.i = "var" THEN Deref(Cur.mat)
                              ELSE Matrix2D_Set_Size(Matrix2D_Create, Cur.n, 0))
    /\ prog' = Tail(prog)
    /\ trace' = Append(trace, [s |-> "", r |-> Cur, i |-> Cur.i])
    /\ UNCHANGED <<_COM, _TIMEOUT, rx, wire, pc, op, last, failed>>

Do_Matrix2D_Add ==
    /\ Running /\ Cur.i = "Matrix2D_Add"
    /\ result' = MatrixResult(Matrix2D_Add(Deref(result.mat), Cur.vals, Cur.n))
    /\ prog' = Tail(prog)
    /\ trace' = Append(trace, [s |-> "", r |-> Cur, i |-> Cur.i])
    /\ UNCHANGED <<_COM, _TIMEOUT, rx, wire, pc, op, last, failed>>

Do_Matrix2D_Add_tMatrix2D ==
    /\ Running /\ Cur.i = "Matrix2D_Add(varadd)"
    /\ result' = MatrixResult(Matrix2D_Add_tMatrix2D(Deref(result.mat), Deref(Cur.mat)))
    /\ prog' = Tail(prog)
    /\ trace' = Append(trace, [s |-> "", r |-> Cur, i |-> Cur.i])
    /\ UNCHANGED <<_COM, _TIMEOUT, rx, wire, pc, op, last, failed>>

\* Sizes set and columns appended in any order

\* the allocatedSize emxEnsureCapacity leaves when newNumel elements are
\* asked of an array that has allocatedSize
emxCapacity(allocatedSize, newNumel) ==
    IF newNumel > allocatedSize
    THEN Doubled(IF allocatedSize < 16 THEN 16 ELSE allocatedSize, newNumel)
    ELSE allocatedSize

\* the calls made on one matrix in a row
MaxSizes == 3

\* the rows and the columns asked of Matrix2D_Set_Size
Rows == {-1, 3, 5}
Cols == {0, 3, 5}

c_Matrix2D_Set_Size(rows, cols) ==
    [Call("Matrix2D_Set_Size(rows, cols)") EXCEPT !.n = rows, !.vals = << cols >>]

\* the calls the caller chooses from
SizeCalls ==
    {c_Matrix2D_Set_Size(rows, cols) : rows \in Rows, cols \in Cols}
        \cup {[Call("Matrix2D_Add") EXCEPT !.vals = Column(1), !.n = 4]}

\* Matrix2D_Create, then up to MaxSizes calls of Matrix2D_Set_Size and
\* Matrix2D_Add, each chosen when it is made
Call_Matrix2D_Set_Size ==
    /\ rx = << >>
    /\ \E n \in 1..MaxSizes :
           Start(Op("Matrix2D_Set_Size", aRobot),
                 << [Call("var") EXCEPT !.mat = Ptr(Matrix2D_Create)] >> \o
                 [k \in 1..n |-> Call("Matrix2D_Set_Size or Matrix2D_Add")])

Do_Matrix2D_Set_Size_rows_cols ==
    /\ Running /\ Cur.i = "Matrix2D_Set_Size or Matrix2D_Add"
    /\ \E c \in SizeCalls :
           /\ result' = MatrixResult(IF c.i = "Matrix2D_Add"
                                     THEN Matrix2D_Add(Deref(result.mat), c.vals, c.n)
                                     ELSE Matrix2D_Set_Size(Deref(result.mat), c.n, c.vals[1]))
           /\ trace' = Append(trace, [s |-> "", r |-> c, i |-> c.i])
    /\ prog' = Tail(prog)
    /\ UNCHANGED <<_COM, _TIMEOUT, rx, wire, pc, op, last, failed>>

\* sizes of which the elements are too many to write down: of these
\* matrices only allocatedSize is kept
LargeSizes == {<< 3, 5 >>, << 0, 7 >>, << 5, 5 >>, << 32768, 32768 >>,
               << 1073741825, 1 >>, << 1, 2147483647 >>}

CapacityResult(allocatedSize) ==
    [n |-> allocatedSize, mat |-> NULL, type |-> 0, kind |-> "capacity"]

\* Matrix2D_Create, then Matrix2D_Set_Size with large sizes
Call_emxEnsureCapacity ==
    /\ rx = << >>
    /\ \E n \in 1..MaxSizes :
           Start(Op("emxEnsureCapacity", aRobot),
                 << Call("Matrix2D_Create") >> \o [k \in 1..n |-> Call("emxEnsureCapacity")])

Do_emxEnsureCapacity ==
    /\ Running /\ Cur.i \in {"Matrix2D_Create", "emxEnsureCapacity"}
    /\ \E size \in LargeSizes :
           LET c == c_Matrix2D_Set_Size(size[1], size[2])
           IN  IF Cur.i = "Matrix2D_Create"
               THEN /\ size = << 3, 5 >>
                    /\ result' = CapacityResult(Matrix2D_Create.allocatedSize)
                    /\ trace' = Append(trace, [s |-> "", r |-> Cur, i |-> Cur.i])
               ELSE /\ result' = CapacityResult(emxCapacity(result.n, size[1] * size[2]))
                    /\ trace' = Append(trace, [s |-> "", r |-> c, i |-> Cur.i])
    /\ prog' = Tail(prog)
    /\ UNCHANGED <<_COM, _TIMEOUT, rx, wire, pc, op, last, failed>>

\* Joint vectors

\* the size of tJoints::Values
RDK_SIZE_JOINTS_MAX == 12

qMin(a, b) == IF a < b THEN a ELSE b

\* tJoints::tJoints(int ndofs)
tJoints(ndofs) ==
    [Values |-> [i \in 1..qMin(ndofs, RDK_SIZE_JOINTS_MAX) |-> 0],
     nDOFs |-> qMin(ndofs, RDK_SIZE_JOINTS_MAX)]

\* void tJoints::SetValues(const double *values, int ndofs); what is read
\* past the end of values is stood for by 0
SetValues(this, values, ndofs) ==
    LET n == IF ndofs >= 0 THEN ndofs ELSE this.nDOFs
        len == IF n > Len(this.Values) THEN n ELSE Len(this.Values)
    IN  [Values |-> [i \in 1..len |->
                        IF i > n THEN this.Values[i]
                        ELSE IF i <= Len(values) THEN values[i] ELSE 0],
         nDOFs |-> n]

\* tJoints::tJoints(const tJoints &copy): nDOFs holds whatever the memory
\* held (uninitialized) when SetValues is called
tJoints_copy(uninitialized, copy) ==
    SetValues([Values |-> << >>, nDOFs |-> uninitialized], copy.Values, copy.nDOFs)

\* bool tJoints::FromString(const QString &str), jnts_list being the
\* numbers between the separators of str
FromString(this, jnts_list) ==
    LET n == qMin(Len(jnts_list), RDK_SIZE_JOINTS_MAX)
        len == IF n > Len(this.Values) THEN n ELSE Len(this.Values)
    IN  [Values |-> [i \in 1..len |-> IF i <= n THEN jnts_list[i] ELSE this.Values[i]],
         nDOFs |-> n]

\* bool RoboDK::_recv_Array(tJoints *jnts)
_recv_Array_tJoints(com, buf, d1, d2, jnts) ==
    LET a == _recv_Array(com, buf, d1, d2, jnts.Values, Ptr(jnts.nDOFs))
    IN  [rest |-> a.rest, jnts |-> [Values |-> a.vals, nDOFs |-> CHOOSE n \in a.psize : TRUE],
         ret |-> a.ret]

\* what the memory of an uninitialized int may hold
Uninitialized == {-3, 0, 2, 40}

\* the calls made on joint vectors
JointCalls ==
    {[Call("tJoints(int)") EXCEPT !.n = ndofs] : ndofs \in {-1, 0, 6, 12, 13}} \cup
    {[Call("tJoints(copy)") EXCEPT !.jnts = Ptr(copy)] : copy \in {aJoints, tJoints(6), tJoints(-1)}} \cup
    {[Call("SetValues") EXCEPT !.n = ndofs, !.vals = [k \in 1..20 |-> k]] : ndofs \in {-1, 0, 3, 12, 13}} \cup
    {[Call("FromString") EXCEPT !.vals = [k \in 1..len |-> k]] : len \in {0, 3, 12, 13}}

JointsResult(jnts) == [n |-> jnts.nDOFs, type |-> 0, vals |-> jnts.Values, kind |-> "joints"]

Call_tJoints ==
    /\ rx = << >>
    /\ \E c \in JointCalls \cup {Call("_recv_Array(tJoints*)")} : Start(Op("tJoints", aRobot), << c >>)

Do_tJoints ==
    /\ Running /\ Cur.i \in {"tJoints(int)", "tJoints(copy)", "SetValues", "FromString"}
    /\ \E uninitialized \in Uninitialized :
           result' = JointsResult(
               IF Cur.i = "tJoints(int)" THEN tJoints(Cur.n)
               ELSE IF Cur.i = "tJoints(copy)" THEN tJoints_copy(uninitialized, Deref(Cur.jnts))
               ELSE IF Cur.i = "SetValues" THEN SetValues(aJoints, Cur.vals, Cur.n)
               ELSE FromString(aJoints, Cur.vals))
    /\ Advance("")
    /\ UNCHANGED <<_COM, _TIMEOUT, rx, wire, pc, op, last, failed>>

Do_recv_Array_tJoints ==
    /\ Running /\ Cur.i = "_recv_Array(tJoints*)"
    /\ \E d1 \in CountArrivals, d2 \in DoubleArrivals :
           LET a == _recv_Array_tJoints(_COM, rx, d1, d2, tJoints(6))
           IN  /\ rx' = a.rest
               /\ result' = JointsResult(a.jnts)
               /\ failed' = (failed \/ ~a.ret)
               /\ prog' = Tail(prog)
               /\ trace' = Append(trace, [s |-> << d1, d2 >>, r |-> a.ret, i |-> Cur.i])
    /\ UNCHANGED <<_COM, _TIMEOUT, wire, pc, op, last>>

NextArrays ==
    \/ Call_Matrix2D_Add
    \/ Call_Matrix2D_Add_tMatrix2D
    \/ Do_Matrix2D_Set_Size
    \/ Do_Matrix2D_Add
    \/ Do_Matrix2D_Add_tMatrix2D
    \/ Call_Matrix2D_Set_Size
    \/ Do_Matrix2D_Set_Size_rows_cols
    \/ Call_emxEnsureCapacity
    \/ Do_emxEnsureCapacity
    \/ Call_tJoints
    \/ Do_tJoints
    \/ Do_recv_Array_tJoints
    \/ Call_recv_Array
    \/ Call_recv_Matrix2D
    \/ Call_send_Matrix2D
    \/ Do_recv_Array
    \/ Do_recv_Matrix2D
    \/ Do_send_Matrix2D
    \/ Return

SpecArrays == Init /\ [][NextArrays]_vars

----------------------------------------------------------------------------
\* Frames sent to a peer that sends them back

\* Mat::Mat(): setToIdentity
Mat == [r \in 0..3 |-> [c \in 0..3 |-> IF r = c THEN 1 ELSE 0]]

\* Mat RoboDK::_recv_Pose(): pose.Set(i, j, valuei), column loop outer
_recv_Pose(com, buf, d) ==
    IF com = "NULL" THEN [rest |-> buf, took |-> << >>, read |-> FALSE, mat |-> Mat]
    ELSE LET b == IF Len(buf) < 128 THEN buf \o d ELSE buf
         IN  IF Len(b) < 128
             THEN [rest |-> b, took |-> << >>, read |-> FALSE, mat |-> Mat]
             ELSE [rest |-> Drop(b, 128), took |-> Take(b, 128), read |-> TRUE,
                   mat |-> [i \in 0..3 |-> [j \in 0..3 |->
                              Double(SubSeq(b, 8 * (4 * j + i) + 1, 8 * (4 * j + i) + 8))]]]

\* the poses and the arrays sent: the identity, a pose with a translation,
\* a pose whose 16 entries all differ; arrays of 0, 1, 3 and 50 values
Poses == {Mat, aPose, [r \in 0..3 |-> [c \in 0..3 |-> 10 * r + c + 1]]}
Arrays == {<< >>, << 11 >>, << 11, 22, 33 >>, [k \in 1..50 |-> k]}

\* the single sends checked byte by byte
FrameSends ==
    {c_send_Item(NULL), c_send_Item(Ptr(aRobot)), c_send_Item(Ptr(aProgram)),
     c_send_Array_tJoints(NULL), c_send_Array_tJoints(Ptr(aJoints)),
     c_send_Array_Mat(NULL), c_send_Array_Mat(Ptr(aPose))}

c_recv_Pose == Call("_recv_Pose")

Call_PoseRoundTrip ==
    \E pose \in Poses : Start(Op("PoseRoundTrip", aRobot), << c_send_Pose(pose), c_recv_Pose >>)

Call_ArrayRoundTrip ==
    \E values \in Arrays, psize \in CallerSizes :
        Start(Op("ArrayRoundTrip", aRobot),
              << c_send_Array(values, Len(values)), c_recv_Array(psize) >>)

Call_send ==
    \E c \in FrameSends : Start(Op("send", aRobot), << c >>)

\* a send call; the call made, with its arguments, is kept in the trace
Do_send_Frame ==
    /\ Running /\ Cur.i \in SendCalls
    /\ wire' = wire \o Sent(_COM, Cur)
    /\ prog' = Tail(prog)
    /\ trace' = Append(trace, [s |-> "", r |-> Cur, i |-> Cur.i])
    /\ UNCHANGED <<_COM, _TIMEOUT, rx, pc, op, last, failed, result>>

\* the peer sends back the bytes written: the first cut of them are in the
\* socket when _recv_Pose is called, the others come during its wait
Do_recv_Pose ==
    /\ Running /\ Cur.i = "_recv_Pose"
    /\ \E cut \in 0..Len(OnWire(wire)) :
           LET bytes == OnWire(wire)
               a == _recv_Pose(_COM, rx \o Take(bytes, cut), Drop(bytes, cut))
           IN  /\ rx' = a.rest
               /\ result' = [n |-> IF a.read THEN 1 ELSE 0, mat |-> Ptr(a.mat), type |-> 0,
                             kind |-> "pose"]
               /\ failed' = (failed \/ ~a.read)
               /\ prog' = Tail(prog)
               /\ trace' = Append(trace, [s |-> Take(bytes, cut), r |-> a.took, i |-> Cur.i])
    /\ UNCHANGED <<_COM, _TIMEOUT, wire, pc, op, last>>

\* the same for _recv_Array: the bytes not yet in the socket come during
\* the wait of _recv_Int when the count is not whole, and during the wait
\* for the doubles otherwise
Do_recv_Array_Frame ==
    /\ Running /\ Cur.i = "_recv_Array"
    /\ \E cut \in 0..Len(OnWire(wire)) :
           LET bytes == OnWire(wire)
               later == Drop(bytes, cut)
               a == _recv_Array(_COM, rx \o Take(bytes, cut),
                                IF cut < 4 THEN later ELSE << >>,
                                IF cut < 4 THEN << >> ELSE later, CallerValues, Cur.item)
           IN  /\ rx' = a.rest
               /\ result' = [n |-> IF a.ret THEN 1 ELSE 0, type |-> 0, vals |-> a.vals,
                             kind |-> "array", psize |-> a.psize]
               /\ failed' = (failed \/ ~a.ret)
               /\ prog' = Tail(prog)
               /\ trace' = Append(trace, [s |-> Take(bytes, cut), r |-> a.took, i |-> Cur.i])
    /\ UNCHANGED <<_COM, _TIMEOUT, wire, pc, op, last>>

NextFrames ==
    \/ Call_PoseRoundTrip
    \/ Call_ArrayRoundTrip
    \/ Call_send
    \/ Do_send_Frame
    \/ Do_recv_Pose
    \/ Do_recv_Array_Frame
    \/ Return

SpecFrames == Init /\ [][NextFrames]_vars

----------------------------------------------------------------------------
\* The operations that wait long for their result

c_recv_Line == Call("_recv_Line")

\* int Item::MoveJ_Test(const tJoints &j1, const tJoints &j2, double minstep_deg)
MoveJ_Test(this, j1, j2, minstep_deg) ==
    << c_check_connection,
       c_send_Line("CollisionMove"),
       c_send_Item(Ptr(this)),
       c_send_Array_tJoints(Ptr(j1)),
       c_send_Array_tJoints(Ptr(j2)),
       c_send_Int(minstep_deg * 1000),
       c_set_TIMEOUT(3600 * 1000),
       c_recv_Int,
       c_set_TIMEOUT(ROBODK_API_TIMEOUT),
       c_check_status >>

\* int Item::MoveL_Test(const tJoints &j1, const Mat &pose2, double minstep_deg)
MoveL_Test(this, j1, pose2, minstep_deg) ==
    << c_check_connection,
       c_send_Line("CollisionMoveL"),
       c_send_Item(Ptr(this)),
       c_send_Array_tJoints(Ptr(j1)),
       c_send_Pose(pose2),
       c_send_Int(minstep_deg * 1000),
       c_set_TIMEOUT(3600 * 1000),
       c_recv_Int,
       c_set_TIMEOUT(ROBODK_API_TIMEOUT),
       c_check_status >>

\* Item Item::setMachiningParameters(QString ncfile, Item part_obj, QString options)
setMachiningParameters(this, ncfile, part_obj, options) ==
    << c_check_connection,
       c_send_Line("S_MachiningParams"),
       c_send_Item(Ptr(this)),
       c_send_Line(ncfile),
       c_send_Item(Ptr(part_obj)),
       c_send_Line("NO_UPDATE " \o options),
       c_set_TIMEOUT(3600 * 1000),
       c_recv_Item,
       c_set_TIMEOUT(ROBODK_API_TIMEOUT),
       c_recv_Int,
       c_check_status >>

\* double Item::Update(int collision_check, int timeout_sec, double*, double mm_step, double deg_step)
Update(this, collision_check, timeout_sec, mm_step, deg_step) ==
    << c_check_connection,
       c_send_Line("Update2"),
       c_send_Item(Ptr(this)),
       c_send_Array(<< collision_check, mm_step, deg_step >>, 3),
       c_set_TIMEOUT(timeout_sec * 1000),
       c_recv_Array(Ptr(10)),
       c_set_TIMEOUT(ROBODK_API_TIMEOUT),
       c_recv_Line,
       c_check_status >>

\* Item RoboDK::ItemUserPick(const QString &message, int itemtype)
ItemUserPick(message, itemtype) ==
    << c_check_connection,
       c_send_Line("PickItem"),
       c_send_Line(message),
       c_send_Int(itemtype),
       c_set_TIMEOUT(3600 * 1000),
       c_recv_Item,
       c_set_TIMEOUT(ROBODK_API_TIMEOUT),
       c_check_status >>

\* void RoboDK::ShowMessage(const QString &message, bool popup)
ShowMessage(message, popup) ==
    << c_check_connection >> \o
    (IF popup
     THEN << c_send_Line("ShowMessage"),
             c_send_Line(message),
             c_set_TIMEOUT(3600 * 1000),
             c_check_status,
             c_set_TIMEOUT(ROBODK_API_TIMEOUT) >>
     ELSE << c_send_Line("ShowMessageStatus"),
             c_send_Line(message),
             c_check_status >>)

\* Item RoboDK::AddFile(const QString &filename, const Item *parent)
AddFile(filename, parent) ==
    << c_check_connection,
       c_send_Line("Add"),
       c_send_Line(filename),
       c_send_Item(parent),
       c_recv_Item,
       c_check_status >>

Call_MoveJ_Test ==
    Start(Op("MoveJ_Test", aRobot), MoveJ_Test(aRobot, aJoints, aJoints, 4))

Call_MoveL_Test ==
    Start(Op("MoveL_Test", aRobot), MoveL_Test(aRobot, aJoints, aPose, 4))

Call_setMachiningParameters ==
    Start(Op("setMachiningParameters", aProgram),
          setMachiningParameters(aProgram, "part.nc", aTarget, ""))

Call_Update ==
    \E timeout_sec \in {1, 3600} :
        Start(Op("Update", aProgram), Update(aProgram, 1, timeout_sec, -1, -1))

Call_ItemUserPick ==
    Start(Op("ItemUserPick", aRobot), ItemUserPick("Pick one", -1))

Call_ShowMessage ==
    \E popup \in BOOLEAN :
        Start([Op("ShowMessage", aRobot) EXCEPT !.blocking = popup], ShowMessage("Hello", popup))

Call_AddFile ==
    \E parent \in {NULL, Ptr(aTarget)} :
        Start(Op("AddFile", aRobot), AddFile("part.step", parent))

\* what may arrive while _recv_Line waits: nothing, "A\n", " A\n" with a
\* space before it, "A \r\n", a line cut short, a line with more behind it
RecvLineArrivals ==
    LineArrivals \cup {<< 32, 65, 10 >>, << 65, 32, 13, 10 >>, << 65 >>, << 65, 10, 66 >>}

Do_recv_Line ==
    /\ Running /\ Cur.i = "_recv_Line"
    /\ \E d \in RecvLineArrivals :
           LET r == _recv_Line(_COM, rx, d)
           IN  /\ rx' = r.rest
               /\ failed' = (failed \/ ~r.ok)
               /\ prog' = Tail(prog)
               /\ trace' = Append(trace, [s |-> d, r |-> r.string, i |-> Cur.i])
    /\ UNCHANGED <<_COM, _TIMEOUT, wire, pc, op, last, result>>

\* the values Update is answered with arrive, or not, while it waits
Do_recv_Array_Reply ==
    /\ Running /\ Cur.i = "_recv_Array"
    /\ \E d1 \in {<< >>, Bytes32(1), Bytes32(1) \o Bytes64(11)}, d2 \in {<< >>, Bytes64(11)} :
           LET a == _recv_Array(_COM, rx, d1, d2, CallerValues, Cur.item)
           IN  /\ rx' = a.rest
               /\ failed' = (failed \/ ~a.ret)
               /\ Advance("")
    /\ UNCHANGED <<_COM, _TIMEOUT, wire, pc, op, last, result>>

NextTimeout ==
    \/ Call_WaitMove
    \/ Call_Popup_ISO9283_CubeProgram
    \/ Call_MoveJ_Test
    \/ Call_MoveL_Test
    \/ Call_setMachiningParameters
    \/ Call_Update
    \/ Call_ItemUserPick
    \/ Call_ShowMessage
    \/ Call_AddFile
    \/ Do_check_connection
    \/ Do_send
    \/ Do_check_status(WordArrivals, LineArrivals)
    \/ Do_recv_Int(WordArrivals)
    \/ Do_recv_Item
    \/ Do_recv_Line
    \/ Do_recv_Array_Reply
    \/ Do_set_TIMEOUT
    \/ Return

SpecTimeout == Init /\ [][NextTimeout]_vars

----------------------------------------------------------------------------
\* Properties

\* the k-th call made is the sending of the line string
IsLine(k, string) == trace[k].i = "_send_Line" /\ trace[k].s = string

\* the k-th call made is the sending of a move command's verb line
IsMoveLine(k) == IsLine(k, "MoveX") \/ IsLine(k, "MoveC")

\* the WaitMove exchanges begun among the calls lo..hi
WaitMoves(lo, hi) == Cardinality({k \in lo..hi : IsLine(k, "WaitMove")})

\* a status decode was made among the calls lo..hi
StatusDecoded(lo, hi) == \E k \in lo..hi : trace[k].i = "_check_status"

\* the operation went through _moveX or _moveC
ThroughMove == \E k \in 1..Len(trace) : IsMoveLine(k)

\* C1: a move makes exactly one WaitMove exchange before its MoveX / MoveC
\* line; once it has returned it has made none after it when non-blocking
\* and exactly one, after the move's status decode, when blocking.  Every
\* MoveJ, MoveL and MoveC that is not a program instruction is such a move.
C1_WaitsAroundMove ==
    /\ \A k \in 1..Len(trace) :
           IsMoveLine(k) =>
               /\ WaitMoves(1, k - 1) = 1
               /\ ~op.blocking => WaitMoves(k + 1, Len(trace)) = 0
               /\ pc = "returned" /\ op.blocking =>
                      /\ WaitMoves(k + 1, Len(trace)) = 1
                      /\ \A j \in (k + 1)..Len(trace) :
                             IsLine(j, "WaitMove") => StatusDecoded(k + 1, j - 1)
    /\ pc = "returned" /\ op.name \in {"MoveJ", "MoveL", "MoveC"} /\ op.this.TYPE # ITEM_TYPE_PROGRAM =>
           ThroughMove

C1_Witness ==
    /\ pc = "returned" /\ op.name = "MoveL" /\ op.blocking /\ ThroughMove
    /\ WaitMoves(1, Len(trace)) = 2

\* C2: when an operation returns, every verb line it sent was followed by
\* a status decode before the next verb line and before the return.
C2_SingleFlight ==
    pc = "returned" =>
        \A k \in 1..Len(trace) :
            trace[k].i = "_send_Line" =>
                \E j \in (k + 1)..Len(trace) :
                    /\ trace[j].i = "_check_status"
                    /\ \A m \in (k + 1)..(j - 1) : trace[m].i # "_send_Line"

\* a status has been decoded since the operation began
HasDecoded == last.said # "none"

\* b is exactly one line: it ends with its only newline
OneLine(b) == Len(b) >= 1 /\ LineLen(b \o << ROBODK_API_LF >>) = Len(b)

\* what _check_status took behind the status word
Behind == Drop(last.took, IF last.read THEN 4 ELSE 0)

C4_StatusClasses ==
    HasDecoded =>
        /\ last.status \in {0, 2} => ~last.ret
        /\ last.status < 10 /\ last.status \notin {0, 2} => last.ret

C4_Witness ==
    /\ HasDecoded /\ last.read /\ last.status = 2 /\ ~last.ret /\ last.lineok

\* C5: a status decode that read no status word yields -1 and reports a
\* failure.
C5_FailedReadIsFailure ==
    HasDecoded /\ ~last.read => last.status = -1 /\ last.ret

\* the value returned tells a failure: an exception, a negative number or
\* an invalid item
TellsFailure(r) ==
    \/ r.kind = "exception"
    \/ r.kind = "int" /\ r.n < 0
    \/ r.kind = "item" /\ r.n = 0

\* C6: an operation in which a receive or a status decode failed hands
\* its caller a result that tells the failure.
C6_FailureSurfaced ==
    pc = "returned" /\ failed => TellsFailure(result)

\* C7: a move called with no target throws with no part of the move
\* command written.
C7_NothingWrittenOnThrow ==
    pc = "thrown" =>
        \A k \in 1..Len(wire) : wire[k] \notin {TLine("MoveX"), TLine("MoveC")}

\* C8: a blocking move has returned only if the latest status decode, the
\* idle report of its trailing WaitMove, read the remote's word 0.
C8_BlockingReturnsIdle ==
    pc = "returned" /\ ThroughMove /\ op.blocking =>
        last.read /\ last.status = 0

\* C9: the MoveX / MoveC line has been written only if the status decode
\* before it, the idle report of the leading WaitMove, read the remote's
\* word 0.
C9_MoveOnlyWhenIdle ==
    Len(trace) > 0 /\ IsMoveLine(Len(trace)) /\ trace[Len(trace)].r = "sent" =>
        last.read /\ last.status = 0

\* the fields of a MoveX command for a target of kind k, as the remote
\* expects them
ExpectedMoveX(k, movetype, robot) ==
    << TLine("MoveX"), TInt(movetype) >>
    \o (IF k = "item" THEN << TInt(3), TInt(0), TU64(5) >>
        ELSE IF k = "joints" THEN << TInt(1), TInt(2), TDbl(11), TDbl(22), TU64(0) >>
        ELSE << TInt(2), TInt(16),
                TDbl(1), TDbl(0), TDbl(0), TDbl(0),
                TDbl(0), TDbl(1), TDbl(0), TDbl(0),
                TDbl(0), TDbl(0), TDbl(1), TDbl(0),
                TDbl(100), TDbl(200), TDbl(300), TDbl(1),
                TU64(0) >>)
    \o << TU64(robot) >>

\* the place of the MoveX line among the fields written, or 0
MoveXAt ==
    IF \E k \in 1..Len(wire) : wire[k] = TLine("MoveX")
    THEN CHOOSE k \in 1..Len(wire) : wire[k] = TLine("MoveX")
    ELSE 0

\* the place of the MoveX line among the calls made
MoveXCall == CHOOSE k \in 1..Len(trace) : IsLine(k, "MoveX")

\* the names of the calls made from the k-th to the (k + n - 1)-th
CallNames(k, n) == [j \in 1..n |-> trace[k + j - 1].i]

\* C10: a MoveX command that was written is the verb line, the move type,
\* one discriminator with its array and its handle (3, empty array, target
\* id; 1, joints, id 0; 2, the 16 pose values, id 0), the robot handle, and
\* nothing else before the next verb line; the status decode follows the
\* robot handle.
C10_MoveXEncoding ==
    pc = "returned" /\ MoveXAt # 0 =>
        LET e == ExpectedMoveX(op.t1, op.movetype, op.this.PTR)
            n == MoveXAt + Len(e)
        IN  /\ SubSeq(wire, MoveXAt, n - 1) = e
            /\ Len(wire) >= n => wire[n] = TLine("WaitMove")
            /\ \E array \in {"_send_Array_tJoints", "_send_Array_Mat"} :
                   CallNames(MoveXCall, 7) =
                       << "_send_Line", "_send_Int", "_send_Int", array,
                          "_send_Item", "_send_Item", "_check_status" >>

C10_Witness ==
    /\ pc = "returned" /\ MoveXAt # 0 /\ op.t1 = "mat" /\ op.blocking

\* the fields of one move target of kind k, as the remote expects them
ExpectedTarget(k) ==
    IF k = "item" THEN << TInt(3), TInt(0), TU64(5) >>
    ELSE IF k = "joints" THEN << TInt(1), TInt(2), TDbl(11), TDbl(22), TU64(0) >>
    ELSE << TInt(2), TInt(16),
            TDbl(1), TDbl(0), TDbl(0), TDbl(0),
            TDbl(0), TDbl(1), TDbl(0), TDbl(0),
            TDbl(0), TDbl(0), TDbl(1), TDbl(0),
            TDbl(100), TDbl(200), TDbl(300), TDbl(1),
            TU64(0) >>

\* the place of the MoveC line among the fields written, or 0
MoveCAt ==
    IF \E k \in 1..Len(wire) : wire[k] = TLine("MoveC")
    THEN CHOOSE k \in 1..Len(wire) : wire[k] = TLine("MoveC")
    ELSE 0

\* the place of the MoveC line among the calls made
MoveCCall == CHOOSE k \in 1..Len(trace) : IsLine(k, "MoveC")

\* the array call that goes with a target of kind k
ArrayCall(k) == IF k = "mat" THEN "_send_Array_Mat" ELSE "_send_Array_tJoints"

\* C11: a MoveC command that was written is the verb line, the move type 3,
\* the intermediate target and then the final target, each as its own
\* discriminator with its array and its handle, then one robot handle, and
\* nothing else before the next verb line; one status decode follows the
\* robot handle.
C11_MoveCEncoding ==
    pc = "returned" /\ MoveCAt # 0 =>
        LET e == << TLine("MoveC"), TInt(3) >> \o ExpectedTarget(op.t1) \o ExpectedTarget(op.t2)
                 \o << TU64(op.this.PTR) >>
            n == MoveCAt + Len(e)
        IN  /\ SubSeq(wire, MoveCAt, n - 1) = e
            /\ Len(wire) >= n => wire[n] = TLine("WaitMove")
            /\ CallNames(MoveCCall, 10) =
                   << "_send_Line", "_send_Int",
                      "_send_Int", ArrayCall(op.t1), "_send_Item",
                      "_send_Int", ArrayCall(op.t2), "_send_Item",
                      "_send_Item", "_check_status" >>
            /\ Len(trace) > MoveCCall + 9 => trace[MoveCCall + 10].i # "_check_status"

C11_Witness ==
    /\ pc = "returned" /\ MoveCAt # 0 /\ op.t1 = "joints" /\ op.t2 = "item"

\* the replies of Replies that begin with READY, as _connect reads them
ReadyReplies == {"READY\n", "READY O\n"}

\* the call made last is a statement at which _connect returned false
ConnectFailedNow ==
    /\ Len(trace) > 0
    /\ LET e == trace[Len(trace)]
       IN  \/ e.i \in {"connectToHost", "waitForReadyRead"} /\ e.r = "timeout"
           \/ e.i = "readAll" /\ e.r \notin ReadyReplies

\* C12: whenever _connect has returned false (no TCP connection, no reply,
\* or a reply that does not begin with READY) the client holds no socket
\* and nothing of the socket's buffer.
C12_FailedConnectTornDown ==
    ConnectFailedNow => _COM = "NULL" /\ rx = << >> /\ result = Bool(FALSE)

C12_Witness ==
    /\ ConnectFailedNow /\ trace[Len(trace)].i = "readAll" /\ trace[Len(trace)].r = "NO\n"
    /\ _COM = "NULL"

\* the TCP connection of the latest attempt was made
Established ==
    \E k \in 1..Len(trace) : trace[k].i = "connectToHost" /\ trace[k].r = "connected"

\* the reply read begins with READY
ReplyReady ==
    \E k \in 1..Len(trace) : trace[k].i = "readAll" /\ trace[k].r \in ReadyReplies

\* C13: _connect waits for and reads the reply only after it has written
\* the line CMD_START and then the line 1 0, right after the connection was
\* made; it returns true, with the client connected, if and only if the
\* TCP connection was made and the reply begins with READY.
C13_HandshakeThenReady ==
    /\ \A k \in 1..Len(trace) :
           trace[k].i = "waitForReadyRead" =>
               /\ k > 3
               /\ trace[k - 3].i = "connectToHost"
               /\ trace[k - 2].i = "write" /\ trace[k - 2].s = "CMD_START"
               /\ trace[k - 1].i = "write" /\ trace[k - 1].s = "1 0"
               /\ k = Len(trace) =>
                      /\ Len(wire) >= 2
                      /\ SubSeq(wire, Len(wire) - 1, Len(wire)) = << TLine("CMD_START"), TLine("1 0") >>
    /\ \A k \in 1..Len(trace) :
           trace[k].i = "readAll" => k > 1 /\ trace[k - 1].i = "waitForReadyRead"
    /\ pc = "returned" /\ op.name = "_connect" =>
           /\ result = Bool(TRUE) <=> Established /\ ReplyReady
           /\ result = Bool(TRUE) <=> _COM = "Connected"
           /\ result \in {Bool(TRUE), Bool(FALSE)}

C13_Witness ==
    /\ pc = "returned" /\ op.name = "_connect" /\ result = Bool(TRUE)
    /\ trace[Len(trace)].r = "READY O\n"

\* the lines of StdoutLines that hold "running" in some case of letters
MarkerLines == {"RoboDK is Running", "ROBODK IS RUNNING"}

\* the connection attempts made
Attempts == Cardinality({k \in 1..Len(trace) : trace[k].i = "connectToHost"})

\* a line with the marker was read
MarkerSeen == \E k \in 1..Len(trace) : trace[k].i = "readLine" /\ trace[k].s \in MarkerLines

\* the latest attempt succeeded
LastAttemptOk ==
    /\ Len(trace) > 0
    /\ trace[Len(trace)].i = "readAll" /\ trace[Len(trace)].r \in ReadyReplies

\* C14: in _connect_smart, once the first attempt has failed, a line with
\* the marker in any case of letters is followed at once by one more
\* attempt, whose result is returned; a line without the marker is followed
\* by no attempt; with no marker seen one attempt was made and false is
\* returned.
C14_OneMoreAttemptOnMarker ==
    /\ pc = "running" /\ Len(trace) > 0 /\ trace[Len(trace)].i = "readLine" =>
           IF trace[Len(trace)].s \in MarkerLines
           THEN prog = Steps_connect
           ELSE \A k \in 1..Len(prog) : prog[k].i = "readLine"
    /\ op.name = "_connect_smart" /\ pc = "returned" /\ ProcessStarted =>
           IF MarkerSeen
           THEN Attempts = 2 /\ result = Bool(LastAttemptOk)
           ELSE Attempts = 1 /\ result = Bool(FALSE)
    /\ op.name = "_connect_smart" => Attempts <= 2

C14_Witness ==
    /\ op.name = "_connect_smart" /\ pc = "returned" /\ ProcessStarted
    /\ \E k \in 1..Len(trace) : trace[k].i = "readLine" /\ trace[k].s = "ROBODK IS RUNNING"
    /\ Attempts = 2 /\ result = Bool(TRUE)

\* C15: _connect_smart, once called, returns.
C15_ConnectSmartReturns ==
    [](op.name = "_connect_smart" /\ pc = "running" => <>(pc = "returned"))

\* C17: a call of _disconnect leaves the client with no socket, and a
\* call on a client that has none changes nothing: however many calls are
\* made in a row, the state is the one the first call left.
C17_DisconnectIdempotent ==
    [][Running /\ Cur.i = "_disconnect" =>
           /\ _COM' = "NULL" /\ rx' = << >>
           /\ _COM = "NULL" => UNCHANGED <<_COM, _TIMEOUT, rx, wire, last, failed, result>>]_vars

C17_Witness ==
    /\ op.name = "_disconnect" /\ pc = "returned" /\ Len(trace) = 3
    /\ trace[1].r = "deleted" /\ trace[2].r = "" /\ trace[3].r = "" /\ _COM = "NULL"

\* C16: a status read that fails on a connected client (the word does not
\* come before the timeout) leaves the client without its connection, and
\* the client keeps its connection through every statement that is neither
\* such a read nor a _disconnect.
C16_FailedReadDisconnects ==
    [][/\ _COM = "Connected" /\ Running /\ Cur.i = "_check_status" /\ ~last'.read =>
              _COM' # "Connected"
       /\ _COM = "Connected" /\ _COM' # "Connected" =>
              Running /\ Cur.i \in {"_check_status", "_recv_Int", "_recv_Item", "_disconnect"}]_vars

\* the call of _recv_Array made, its arrivals and what it took from the socket
ArrayRead == pc = "returned" /\ op.name = "_recv_Array" /\ Len(trace) = 1
CountArrived == trace[1].s[1]
DeclaredCount == Int32(Take(CountArrived, 4))
OverCeiling == _COM = "Connected" /\ Len(CountArrived) >= 4 /\ DeclaredCount > 50

\* C18: _recv_Array on a connected client that reads a count above 50
\* returns false having taken the 4 bytes of the count and no more: every
\* byte that came behind the count is still unread, and the caller's values
\* are the ones it had before the call.
C18_CountAboveCeilingRejected ==
    ArrayRead /\ OverCeiling =>
        /\ result.n = 0
        /\ trace[1].r = Take(CountArrived, 4)
        /\ rx = Drop(CountArrived, 4)
        /\ result.vals = CallerValues

C18_Witness ==
    /\ ArrayRead /\ OverCeiling /\ DeclaredCount = 51
    /\ Len(rx) = 408 /\ result.n = 0

\* the call of _recv_Matrix2D made on a connected client: the matrix the
\* remote sent, its bytes, and the bytes that arrived before the timeout
MatrixRead ==
    pc = "returned" /\ op.name = "_recv_Matrix2D" /\ Len(trace) = 1 /\ _COM = "Connected"
SentMatrix == trace[1].r
SentBytes == OnWire(_send_Matrix2D("Connected", SentMatrix))
RECURSIVE Joined(_)
Joined(ds) == IF ds = << >> THEN << >> ELSE ds[1] \o Joined(Tail(ds))
ArrivedBytes == Joined(trace[1].s)

\* C19: when every byte that _send_Matrix2D wrote for a matrix arrives
\* before the timeout, in whatever deliveries, _recv_Matrix2D returns true
\* with a matrix of the same size holding the same value at every (i, j),
\* and leaves nothing of it in the socket.
C19_MatrixRoundTripAnySplit ==
    MatrixRead /\ ArrivedBytes = SentBytes =>
        /\ result.n = 1
        /\ result.mat # NULL
        /\ Deref(result.mat).size = SentMatrix.size
        /\ \A i \in 0..(SentMatrix.size[1] - 1), j \in 0..(SentMatrix.size[2] - 1) :
               Matrix2D_Get_ij(Deref(result.mat), i, j) = Matrix2D_Get_ij(SentMatrix, i, j)
        /\ rx = << >>

\* C20: when the timeout comes in _recv_Matrix2D before every byte of the
\* matrix has arrived (a dimension or an element is missing or cut), the
\* call returns false and the caller's matrix is NULL or of size 0 x 0.
C20_TimeoutDiscardsMatrix ==
    MatrixRead /\ Len(ArrivedBytes) < Len(SentBytes) =>
        /\ result.n = 0
        /\ result.mat = NULL \/ Deref(result.mat).size = << 0, 0 >>

\* a round trip made on a connected client: the call sent and its arguments
RoundTrip(name) == pc = "returned" /\ op.name = name /\ Len(trace) = 2 /\ _COM = "Connected"
SentCall == trace[1].r
SentPose == Deref(SentCall.mat)

\* C21: a pose sent with _send_Pose and sent back by the peer is read by
\* _recv_Pose with the same 16 entries, entry (i, j) being the double at
\* position 4*j+i of the 16 written; an array of n values (0 <= n <= 50)
\* sent with _send_Array and sent back is read by _recv_Array, which
\* returns true with the same n values in the same order and the count n.
C21_FramesRoundTrip ==
    /\ RoundTrip("PoseRoundTrip") =>
          /\ Len(wire) = 16 /\ result.n = 1 /\ rx = << >>
          /\ \A i \in 0..3, j \in 0..3 :
                 /\ wire[4 * j + i + 1] = TDbl(SentPose[i][j])
                 /\ Deref(result.mat)[i][j] = SentPose[i][j]
    /\ RoundTrip("ArrayRoundTrip") =>
          /\ result.n = 1 /\ rx = << >>
          /\ Len(result.vals) >= SentCall.n
          /\ \A k \in 1..SentCall.n : result.vals[k] = SentCall.vals[k]
          /\ result.psize # NULL => result.psize = Ptr(SentCall.n)

C21_Witness ==
    /\ RoundTrip("PoseRoundTrip") /\ SentPose[1][2] = 13 /\ SentPose[2][1] = 22
    /\ Len(trace[2].s) = 100 /\ Deref(result.mat)[1][2] = 13

\* C22: a call of _recv_Item that finds the 8 bytes of an identifier (in
\* the socket, or after its wait) takes those 8 bytes and no more, and the
\* handle it returns has the identifier read and the type tag -1; a call
\* that does not find them returns a handle with the type tag -1 as well.
C22_RecvItemTakesIdOnly ==
    [][Running /\ Cur.i = "_recv_Item" /\ _COM = "Connected" =>
          \E d \in ItemChunks \cup {<< >>} :
              LET b == IF Len(rx) < 8 THEN rx \o d ELSE rx
              IN  IF Len(b) >= 8
                  THEN /\ rx' = Drop(b, 8)
                       /\ result' = [n |-> UInt64(Take(b, 8)), type |-> -1, kind |-> "item"]
                  ELSE rx' = b /\ result'.type = -1]_vars

\* one send call made on a connected client
SendMade == pc = "returned" /\ op.name = "send" /\ Len(trace) = 1 /\ _COM = "Connected"

\* C23: _send_Item writes 8 bytes and no more: the identifier of the
\* handle, or the identifier 0 for NULL; _send_Array called with NULL
\* joints or a NULL matrix writes the 4 bytes of the count 0 and no more.
C23_AbsentSentEmpty ==
    SendMade =>
        /\ SentCall.i = "_send_Item" =>
               OnWire(wire) = Bytes64(IF SentCall.item = NULL THEN 0 ELSE Deref(SentCall.item).PTR)
        /\ SentCall.i = "_send_Array_tJoints" /\ SentCall.jnts = NULL => OnWire(wire) = Bytes32(0)
        /\ SentCall.i = "_send_Array_Mat" /\ SentCall.mat = NULL => OnWire(wire) = Bytes32(0)

C23_Witness ==
    SendMade /\ SentCall.i = "_send_Item" /\ SentCall.item = NULL /\ wire = << TU64(0) >>

\* the operations that assign the timeout, and such an assignment made
RaisesTimeout ==
    {"WaitMove", "Update", "MoveJ_Test", "MoveL_Test", "setMachiningParameters",
     "ItemUserPick", "ShowMessage", "Popup_ISO9283_CubeProgram"}
TimeoutAssigned == \E k \in 1..Len(trace) : trace[k].i = "_TIMEOUT ="

\* C24: whenever no operation is in progress (before a call, and after
\* the return of an operation, one that raised the timeout included,
\* whether its receives succeeded or failed) the timeout has one and the
\* same value: an operation returns with the timeout it was called with.
C24_TimeoutRestored ==
    /\ pc # "running" => _TIMEOUT = ROBODK_API_TIMEOUT
    /\ pc = "returned" /\ TimeoutAssigned => op.name \in RaisesTimeout

C24_Witness ==
    /\ pc = "returned" /\ op.name = "Update" /\ TimeoutAssigned /\ failed
    /\ _COM = "Connected" /\ _TIMEOUT = ROBODK_API_TIMEOUT

\* the operations the spec names as long-running, and their requests and
\* the receive of their result
LongRunning == {"AddFile", "Update", "MoveJ_Test", "MoveL_Test", "ItemUserPick"}
ResultReceive == {"_recv_Item", "_recv_Int", "_recv_Array"}

\* C25: a long-running operation makes the receive of its result with
\* the timeout raised above the default (as it must, if the timeout is
\* raised from the request to the end of that receive).
C25_RaisedAtResult ==
    [][Running /\ op.name \in LongRunning /\ Cur.i \in ResultReceive =>
          _TIMEOUT > ROBODK_API_TIMEOUT]_vars

\* the statuses by which the remote reports something
Reported == {1, 2, 3, 9}

\* C26: a call of _check_status that reads one of the statuses 1, 2, 3, 9
\* leaves the client with the socket it had, open, and with the timeout it
\* had.
C26_StatusKeepsConnection ==
    [][Running /\ Cur.i = "_check_status" /\ last'.read /\ last'.status \in Reported =>
          _COM' = _COM /\ isOpen(_COM') /\ _TIMEOUT' = _TIMEOUT]_vars

C26_Witness ==
    /\ pc = "returned" /\ last.read /\ last.status = 3 /\ last.ret
    /\ isOpen(_COM) /\ _TIMEOUT = ROBODK_API_TIMEOUT

\* C27: when the last status decode of an operation read a message line
\* (status 2 or 3), the value the operation returns holds the text of that
\* line.
C27_MessagePreserved ==
    pc = "returned" /\ last.read /\ last.status \in {2, 3} /\ last.lineok =>
        "string" \in DOMAIN result /\ result.string = last.strproblems

\* C28: a joint vector left by a constructor, by SetValues, by FromString
\* or by _recv_Array(tJoints*), whether the receive succeeded or not, has
\* between 0 and RDK_SIZE_JOINTS_MAX values.
C28_JointsLengthBounded ==
    op.name = "tJoints" /\ result.kind = "joints" =>
        0 <= result.n /\ result.n <= RDK_SIZE_JOINTS_MAX

\* the matrix a call of Matrix2D_Add finds, and the one it leaves
Var == Deref(result.mat)
VarAfter == Deref(result'.mat)
SameColumns(n) ==
    \A i \in 0..(Var.size[1] - 1), j \in 0..(n - 1) :
        Matrix2D_Get_ij(VarAfter, i, j) = Matrix2D_Get_ij(Var, i, j)

\* C29: Matrix2D_Add(var, array, numel) with numel at least the rows of
\* var leaves var with the same rows and one column more, the columns it
\* had unchanged and the last column equal to the first values of array.
C29_ColumnAppended ==
    [][Running /\ Cur.i = "Matrix2D_Add" /\ Cur.n >= Var.size[1] =>
          /\ VarAfter.size = << Var.size[1], Var.size[2] + 1 >>
          /\ SameColumns(Var.size[2])
          /\ \A i \in 0..(Var.size[1] - 1) :
                 Matrix2D_Get_ij(VarAfter, i, Var.size[2]) = Cur.vals[i + 1]]_vars

\* three rows and six columns appended one at a time: each column holds
\* what was appended
C29_Witness ==
    /\ pc = "returned" /\ op.name = "Matrix2D_Add" /\ Var.size = << 3, 6 >>
    /\ \A i \in 0..2, j \in 0..5 : Matrix2D_Get_ij(Var, i, j) = trace[j + 2].r.vals[i + 1]

IsDoubled(c) == \E k \in 0..26 : c = 16 * 2^k

\* the call that was made last
LastCall == trace[Len(trace)].r
LastCallAfter == trace'[Len(trace')].r
MatrixStep ==
    Cur.i \in {"Matrix2D_Set_Size or Matrix2D_Add", "Matrix2D_Add", "Matrix2D_Add(varadd)"}

\* what C31 says of one call, but for the numbers the capacity may be:
\* it is at least rows * cols, no call lowers it, and a call that raises
\* it keeps the rows * cols elements the matrix had
CapacityKept ==
    /\ Running /\ MatrixStep =>
           /\ VarAfter.allocatedSize >= VarAfter.size[1] * VarAfter.size[2]
           /\ VarAfter.allocatedSize = Len(VarAfter.data)
           /\ VarAfter.allocatedSize >= Var.allocatedSize
           /\ \A k \in 1..(Var.size[1] * Var.size[2]) : VarAfter.data[k] = Var.data[k]
    /\ Running /\ Cur.i = "emxEnsureCapacity" =>
           /\ result'.n >= LastCallAfter.n * LastCallAfter.vals[1]
           /\ result'.n >= result.n

\* the allocatedSize the call leaves
CapacityAfter == IF result'.kind = "matrix" THEN VarAfter.allocatedSize ELSE result'.n

\* C31 as it is stated: after Matrix2D_Create and any calls of
\* Matrix2D_Set_Size and Matrix2D_Add the allocated capacity is at least
\* rows * cols, it is 0 or 16 times a power of two, no call lowers it, and
\* a call that raises it keeps the elements the matrix had.
C31_CapacityPowerOfTwo ==
    [][/\ CapacityKept
       /\ Running /\ (MatrixStep \/ Cur.i = "emxEnsureCapacity") =>
              CapacityAfter = 0 \/ IsDoubled(CapacityAfter)]_vars

\* C31: after Matrix2D_Create and any calls of Matrix2D_Set_Size and
\* Matrix2D_Add the allocated capacity is at least rows * cols; it is 0, or
\* 16 times a power of two, or 2147483647 once more than 1073741824
\* elements were asked for; no call lowers it; and a call that raises it
\* keeps the rows * cols elements the matrix had.
C31_Capacity ==
    [][/\ CapacityKept
       /\ Running /\ (MatrixStep \/ Cur.i = "emxEnsureCapacity") =>
              \/ CapacityAfter = 0
              \/ IsDoubled(CapacityAfter)
              \/ CapacityAfter = 2147483647 /\ \E k \in 2..Len(trace') :
                     trace'[k].r.n * trace'[k].r.vals[1] > 1073741824]_vars

\* a matrix of 5 x 5 made 3 x 3 and then given a column: the capacity
\* grew to 32 and stayed there
C31_Witness ==
    /\ pc = "returned" /\ op.name = "Matrix2D_Set_Size" /\ Len(trace) = 4
    /\ trace[2].r.n = 5 /\ trace[2].r.vals = << 5 >> /\ trace[4].i = "Matrix2D_Add"
    /\ Var.allocatedSize = 32 /\ Var.size = << 3, 4 >>

\* the port and the arguments the constructor was given, and what it kept
Constructed == op.name = "RoboDK" /\ trace # << >>
com_port == op.movetype
args == op.t1
_PORT == trace[1].r
_ARGUMENTS == trace[1].s

\* C32: a client constructed with a valid port n other than 20500 keeps
\* the arguments with " /PORT=n" behind them and the port n; a client
\* constructed with a negative port or with 20500 keeps the arguments as
\* they were given and the port 20500.
C32_PortFlag ==
    Constructed =>
        /\ com_port > 0 /\ com_port # ROBODK_DEFAULT_PORT =>
               /\ _ARGUMENTS = args \o " /PORT=" \o ToString(com_port)
               /\ _PORT = com_port
        /\ com_port < 0 \/ com_port = ROBODK_DEFAULT_PORT =>
               /\ _ARGUMENTS = args
               /\ _PORT = ROBODK_DEFAULT_PORT

\* what arrived while the call that was made last waited, and what the
\* call returned
Arrived == trace'[Len(trace')].s
Returned == trace'[Len(trace')].r

\* the buffer _recv_Line finds once its wait is over
Waited == IF canReadLine(rx) THEN rx ELSE rx \o Arrived

\* C33: _recv_Line returns the first line of the buffer without its
\* newline and takes that line and no more; when no line is complete
\* before the timeout it returns the empty string and leaves nothing in the
\* socket's buffer.
C33_LineWithoutNewline ==
    [][Running /\ Cur.i = "_recv_Line" /\ _COM # "NULL" =>
          IF canReadLine(Waited)
          THEN /\ Returned = Take(Waited, LineLen(Waited) - 1)
               /\ rx' = Drop(Waited, LineLen(Waited))
          ELSE /\ Returned = << >>
               /\ rx' = << >>]_vars

\* the timeout is above the default; the operation in progress has
\* assigned it; the operation in progress has the assignment of the default
\* still to make
Raised == _TIMEOUT # ROBODK_API_TIMEOUT
RaiseMade == \E k \in 1..Len(trace) : trace[k].i = "_TIMEOUT ="
ResetAhead == \E k \in 1..Len(prog) : prog[k] = c_set_TIMEOUT(ROBODK_API_TIMEOUT)
Assignments == {k \in 1..Len(trace) : trace[k].i = "_TIMEOUT ="}

\* C34: a timeout other than ROBODK_API_TIMEOUT is seen only while an
\* operation is in progress that has raised it and has yet to reset it:
\* after construction and after every operation that returned or threw, the
\* timeout is ROBODK_API_TIMEOUT.
C34_RaisedOnlyInside ==
    /\ Raised => pc = "running" /\ RaiseMade /\ ResetAhead
    /\ pc \in {"returned", "thrown"} => ~Raised

\* the popup has returned: it raised the timeout to an hour and reset it
C34_Witness ==
    /\ pc = "returned" /\ op.name = "Popup_ISO9283_CubeProgram"
    /\ Cardinality(Assignments) = 2 /\ ~Raised

\* the calls an operation has made and those it has yet to make, by name
Names(calls) == [k \in 1..Len(calls) |-> calls[k].i]

\* the status decodes the operation in progress has made
Decodes == Cardinality({k \in 1..Len(trace) : trace[k].i = "_check_status"})

\* the timeouts WaitMove is called with, in ms
WaitTimeouts == {2 * 1000, WaitMoveDefaultSec * 1000}

\* C35: WaitMove sends the line "WaitMove" and the handle of the item
\* (on a connected client they are the last two fields written), then
\* decodes a status twice: the first time with the default timeout, the
\* second time with the timeout of the caller, whatever the first status
\* was, and with nothing sent from the first decode to the second.
C35_WaitMoveTwoDecodes ==
    [][op.name = "WaitMove" /\ Running =>
          /\ Names(trace) \o Names(prog) =
                 << "_check_connection", "_send_Line", "_send_Item", "_check_status",
                    "_TIMEOUT =", "_check_status", "_TIMEOUT =" >>
          /\ Cur.i = "_check_status" /\ Decodes = 0 =>
                 /\ _TIMEOUT = ROBODK_API_TIMEOUT
                 /\ trace[2].s = "WaitMove"
                 /\ isOpen(_COM) =>
                        /\ Len(wire) >= 2
                        /\ SubSeq(wire, Len(wire) - 1, Len(wire)) =
                               << TLine("WaitMove"), TU64(op.this.PTR) >>
                 /\ prog' = Tail(prog)
                 /\ wire' = wire /\ _TIMEOUT' = _TIMEOUT
          /\ Cur.i = "_TIMEOUT =" /\ Decodes = 1 =>
                 /\ Cur.n \in WaitTimeouts
                 /\ _TIMEOUT' = Cur.n
                 /\ wire' = wire
          /\ Cur.i = "_check_status" /\ Decodes = 1 =>
                 /\ _TIMEOUT \in WaitTimeouts
                 /\ wire' = wire /\ _TIMEOUT' = _TIMEOUT]_vars

\* WaitMove has returned on a connected client: the first status was not
\* 0, the second was decoded all the same and was 0
C35_Witness ==
    /\ pc = "returned" /\ op.name = "WaitMove" /\ _COM = "Connected"
    /\ Decodes = 2 /\ failed /\ Outcome(last) = "ok"
    /\ wire = << TLine("WaitMove"), TU64(op.this.PTR) >>

\* the receive primitives an operation calls
RecvCalls == {"_check_status", "_recv_Int", "_recv_Item"}

\* the operation in progress began with a _check_connection that made no
\* connection; the _check_connection it made last made none
FirstCheckFailed ==
    trace # << >> /\ trace[1].i = "_check_connection" /\ trace[1].r = "not connected"
Checks == {k \in 1..Len(trace) : trace[k].i = "_check_connection"}
LastCheckFailed ==
    \E k \in Checks : trace[k].r = "not connected" /\ \A j \in Checks : j <= k

\* _check_connection leaves the client connected or without a socket
CheckLeavesConnectedOrNull ==
    Running /\ Cur.i = "_check_connection" => _COM' \in {"Connected", "NULL"}

\* the send primitive about to run writes nothing and returns false, the
\* receive primitive about to run takes nothing
NothingWrittenOrTaken ==
    /\ Running /\ Cur.i \in SendCalls =>
           wire' = wire /\ trace'[Len(trace')].r = "not sent"
    /\ Running /\ Cur.i \in RecvCalls => rx' = rx

\* C36 as it is stated: _check_connection leaves the client connected or
\* without a socket, and in an operation that began with a
\* _check_connection that made no connection, every send primitive writes
\* nothing and returns false and every receive primitive takes nothing.
C36_NotConnectedWholeOperation ==
    [][/\ CheckLeavesConnectedOrNull
       /\ FirstCheckFailed => NothingWrittenOrTaken]_vars

\* C36: _check_connection leaves the client connected or without a
\* socket, and from a _check_connection that made no connection to the next
\* _check_connection of the operation, every send primitive writes nothing
\* and returns false and every receive primitive takes nothing.
C36_NotConnectedUntilNextCheck ==
    [][/\ CheckLeavesConnectedOrNull
       /\ LastCheckFailed => NothingWrittenOrTaken]_vars

\* the peer had closed the connection and no new one was made: setPose has
\* returned, the client holds no socket, and nothing was written
C36_Witness ==
    /\ pc = "returned" /\ op.name = "setPose" /\ FirstCheckFailed
    /\ _COM = "NULL" /\ wire = << >> /\ rx = << >>
    /\ \E k \in 1..Len(trace) : trace[k].i = "_send_Pose" /\ trace[k].r = "not sent"

\* the calls of the operation, made and yet to make, and the lines among
\* them
AllCalls == [k \in 1..(Len(trace) + Len(prog)) |->
                IF k <= Len(trace) THEN [s |-> trace[k].s, i |-> trace[k].i]
                ELSE [s |-> prog[k - Len(trace)].s, i |-> prog[k - Len(trace)].i]]
LinesSent == {AllCalls[k].s : k \in {j \in 1..Len(AllCalls) : AllCalls[j].i = "_send_Line"}}

\* a move to a target item is in progress or has returned
MoveToItem == op.name \in {"MoveJ", "MoveL"} /\ op.t1 = "item" /\ pc \in {"running", "returned"}

\* every send of the operation was written
AllSent ==
    /\ trace[1].r = "connected"
    /\ \A k \in 1..Len(trace) : trace[k].r # "not sent"

\* C37: MoveJ and MoveL to a target item, called on an item of type
\* ITEM_TYPE_PROGRAM, make the one exchange "Add_INSMOVE" (the target, the
\* program, 1 for MoveJ and 2 for MoveL, a status decode) and neither a
\* WaitMove nor a MoveX; called on an item of another type they make the
\* WaitMove and MoveX exchanges and no Add_INSMOVE.
C37_ProgramGetsInstruction ==
    MoveToItem =>
        IF op.this.TYPE = ITEM_TYPE_PROGRAM
        THEN /\ Names(AllCalls) = << "_check_connection", "_send_Line", "_send_Item",
                                     "_send_Item", "_send_Int", "_check_status" >>
             /\ LinesSent = {"Add_INSMOVE"}
             /\ pc = "returned" /\ AllSent =>
                    /\ Len(wire) >= 4
                    /\ SubSeq(wire, Len(wire) - 3, Len(wire)) =
                           << TLine("Add_INSMOVE"), TU64(aTarget.PTR), TU64(op.this.PTR),
                              TInt(IF op.name = "MoveJ" THEN 1 ELSE 2) >>
        ELSE /\ LinesSent = {"WaitMove", "MoveX"}
             /\ AllCalls[2].s = "WaitMove"
             /\ \E k \in 1..Len(AllCalls) : AllCalls[k].s = "MoveX" /\ AllCalls[k + 1].i = "_send_Int"

\* MoveL to a target called on a program of a connected client has
\* returned: the exchange written is Add_INSMOVE with move type 2
C37_Witness ==
    /\ pc = "returned" /\ op.name = "MoveL" /\ op.t1 = "item" /\ op.this = aProgram
    /\ wire = << TLine("Add_INSMOVE"), TU64(aTarget.PTR), TU64(aProgram.PTR), TInt(2) >>

\* the times the process was started
Launches == Cardinality({k \in 1..Len(trace) : trace[k].i = "QProcess::start"})

\* the call made k-th is a statement at which _connect returned false, or
\* one at which it returned true
FailedAt(k) ==
    \/ trace[k].i \in {"connectToHost", "waitForReadyRead"} /\ trace[k].r = "timeout"
    \/ trace[k].i = "readAll" /\ trace[k].r \notin ReadyReplies
SucceededAt(k) == trace[k].i = "readAll" /\ trace[k].r \in ReadyReplies

\* the first attempt succeeded
FirstAttemptOk ==
    \E k \in 1..Len(trace) : SucceededAt(k) /\ \A j \in 1..(k - 1) : ~FailedAt(j)

\* C38: in one call of _connect_smart the process is started at most
\* once, and only right after the first attempt to connect has failed; when
\* the first attempt succeeds no process is started and no other attempt is
\* made; at most two attempts are made.
C38_OneLaunchTwoAttempts ==
    op.name \in {"_connect_smart", "RoboDK"} =>
        /\ Launches <= 1
        /\ Attempts <= 2
        /\ \A k \in 1..Len(trace) :
               trace[k].i = "QProcess::start" =>
                   /\ k > 1 /\ FailedAt(k - 1)
                   /\ Cardinality({j \in 1..k : trace[j].i = "connectToHost"}) = 1
        /\ FirstAttemptOk => Launches = 0 /\ Attempts = 1 /\ prog = << >>
        /\ Attempts = 2 => Launches = 1

\* _connect_smart has returned false: the first attempt failed, the
\* process was started once, the marker was read and the second attempt
\* failed as well
C38_Witness ==
    /\ op.name = "_connect_smart" /\ pc = "returned" /\ result = Bool(FALSE)
    /\ Launches = 1 /\ Attempts = 2 /\ MarkerSeen

\* the handle Delete was called on, as it is now
Handle == Item(result.n, result.type)

\* C39: when Item::Delete returns, the handle it was called on has the
\* id 0 and the type -1 and is not valid, whatever status was decoded for
\* "Remove" and whether the client was connected or not.
C39_DeleteInvalidates ==
    pc = "returned" /\ op.name = "Delete" =>
        /\ Handle = Item(0, -1)
        /\ ~Valid(Handle)
        /\ Valid(op.this)

\* Delete has returned on a connected client that decoded a status other
\* than 0 for "Remove": the handle is not valid
C39_Witness ==
    /\ pc = "returned" /\ op.name = "Delete" /\ _COM = "Connected"
    /\ wire = << TLine("Remove"), TU64(op.this.PTR) >>
    /\ Outcome(last) = "fail" /\ ~Valid(Handle)

====
